---- MODULE Spec2Model ----
(***************************************************************************)
(* Model of the real-time recognition pipeline of camera_ocr_llm:          *)
(*   agents/debounce.py  OCRDebouncer (StabilityVoter)                      *)
(*   agents/agent_e.py   LLMCache, LLMThrottler                             *)
(*   worker.py           _CircuitBreaker, _pipeline_loop                    *)
(*   shared_state.py     SharedState frame slot and result slot             *)
(*                                                                         *)
(* Texts are sequences of one-character strings, so that whitespace         *)
(* normalisation, key building and the difflib ratio are computed and not   *)
(* assumed.  time.monotonic() is the integer clock `now` (seconds).         *)
(***************************************************************************)
EXTENDS Integers, Sequences, FiniteSets, TLC

VARIABLES
    now,        \* time.monotonic(), in whole seconds
    deb,        \* OCRDebouncer: _history_len, _min_votes, _similarity_vote, _q
    cache,      \* LLMCache: _data (oldest first), _max_size, _ttl
    thr,        \* LLMThrottler: _interval, _last_call_ts_ms
    cb,         \* _CircuitBreaker: threshold, cooldown, failures, last failure time
    ret,        \* what the last operation returned (and what it was called with)
    hist,       \* history of the calls made on the component under test
    st,         \* SharedState: frame slot, frame counters, latest_result
    pl,         \* locals of _pipeline_loop: pending_llm, last_sent_text, last_corrected
    futures,    \* the _run_llm_safe futures of the executor not yet collected
                \* (in SpecPool: all tasks of the executor)
    calls,      \* number of _run_llm_safe calls submitted to the executor
                \* (in SpecPool: of all tasks submitted)
    pc          \* where _pipeline_loop stands: "drain" (top of a cycle) or "frame"
                \* (in SpecPool "wait_ocr"; in SpecLLM "call" or "merge")

None == "None"

Max2(x, y) == IF x >= y THEN x ELSE y
Min2(x, y) == IF x <= y THEN x ELSE y

(***************************************************************************)
(* Bounds of the model.                                                    *)
(***************************************************************************)
MaxTime == 4        \* the pipeline's clock stops at MaxTime
MaxFrames == 4      \* frames the producer publishes
MaxCalls == 3       \* correction calls the pipeline submits
MaxCacheTime == 2   \* the clock of the cache under test stops at MaxCacheTime
MaxKeyTime == 2     \* the clock of the cache of SpecKeys stops at MaxKeyTime
MaxHistoryLen == 3  \* OCRDebouncer(history_len) is drawn from 1..MaxHistoryLen
MaxThrTime == 5     \* the clock of the throttler under test stops at MaxThrTime
MaxBrkTime == 3     \* the clock of the breaker under test stops at MaxBrkTime
MaxOutcomes == 4    \* outcomes recorded on the breaker under test
MaxSharedFrames == 3 \* set_frame calls on the SharedState under test
MaxLockFrames == 2   \* frames the main loop publishes while the lock is under test

(***************************************************************************)
(* Texts.                                                                  *)
(***************************************************************************)
SP == " "

\* str.strip() then str.split(): the maximal runs of non-blank characters.
RECURSIVE split(_)
split(s) ==
    IF s = <<>> THEN <<>>
    ELSE IF Head(s) = SP THEN split(Tail(s))
    ELSE LET rest == split(Tail(s)) IN
         IF Len(s) > 1 /\ s[2] # SP
         THEN <<(<<Head(s)>> \o Head(rest))>> \o Tail(rest)
         ELSE <<(<<Head(s)>>)>> \o rest

\* " ".join(words)
RECURSIVE join(_)
join(words) ==
    IF words = <<>> THEN <<>>
    ELSE IF Len(words) = 1 THEN Head(words)
    ELSE Head(words) \o <<SP>> \o join(Tail(words))

\* debounce.py: " ".join((text or "").strip().split())
normalize_for_vote(text) == join(split(text))

\* agent_e.py: the same normalisation, used for the cache key
normalize_text(text) == join(split(text))

(***************************************************************************)
(* difflib.SequenceMatcher(None, a, b).ratio() on short texts (no junk).   *)
(***************************************************************************)
\* find_longest_match: the longest common block; among the longest the one
\* starting earliest in a, and of those the one starting earliest in b.
Blocks(a, b) ==
    { blk \in [i : 1..Len(a), j : 1..Len(b), k : 1..Min2(Len(a), Len(b))] :
        /\ blk.i + blk.k - 1 <= Len(a)
        /\ blk.j + blk.k - 1 <= Len(b)
        /\ SubSeq(a, blk.i, blk.i + blk.k - 1) = SubSeq(b, blk.j, blk.j + blk.k - 1) }

find_longest_match(a, b) ==
    CHOOSE blk \in Blocks(a, b) :
        \A o \in Blocks(a, b) :
            \/ o.k < blk.k
            \/ o.k = blk.k /\ blk.i < o.i
            \/ o.k = blk.k /\ blk.i = o.i /\ blk.j <= o.j

\* get_matching_blocks: total size of the blocks found by recursing on the
\* pieces to the left and to the right of the longest match.
RECURSIVE matching_size(_, _)
matching_size(a, b) ==
    IF Blocks(a, b) = {} THEN 0
    ELSE LET blk == find_longest_match(a, b) IN
         blk.k
         + matching_size(SubSeq(a, 1, blk.i - 1), SubSeq(b, 1, blk.j - 1))
         + matching_size(SubSeq(a, blk.i + blk.k, Len(a)),
                         SubSeq(b, blk.j + blk.k, Len(b)))

\* text_similarity(a, b) >= pct / 100, with ratio() = 2.0 * M / T
similar_at_least(a, b, pct) ==
    LET a_n == normalize_for_vote(a)
        b_n == normalize_for_vote(b)
    IN  IF a_n = <<>> /\ b_n = <<>> THEN 100 >= pct
        ELSE IF a_n = <<>> \/ b_n = <<>> THEN 0 >= pct
        ELSE 200 * matching_size(a_n, b_n) >= pct * (Len(a_n) + Len(b_n))

(***************************************************************************)
(* agents/debounce.py: OCRDebouncer                                        *)
(***************************************************************************)
\* The similarity thresholds a debouncer is built with, in percent.
SimilarityVotes == {0, 50, 60, 80, 88}

\* The recognised texts fed to add().
RawSamples ==
    { <<>>, <<"a">>, <<"b">>, <<SP, "a">>, <<"a", "b">>,
      <<"a", SP, "b">>, <<"a", SP, SP, "b">> }

\* OCRDebouncer.__init__
OCRDebouncer(history_len, min_votes, similarity_vote) ==
    [ history_len     |-> Max2(1, history_len),
      min_votes       |-> Max2(1, min_votes),
      similarity_vote |-> Max2(0, Min2(100, similarity_vote)),
      q               |-> <<>> ]

\* Mutant of deque_append: a full window drops its newest entry.
Mut_deque_append_drops_newest(q, maxlen, x) ==
    IF Len(q) >= maxlen THEN SubSeq(q, 1, Len(q) - 1) \o <<x>> ELSE q \o <<x>>

\* deque(maxlen=history_len).append(x)
deque_append(q, maxlen, x) ==
    IF Len(q) >= maxlen THEN Tail(q) \o <<x>> ELSE q \o <<x>>

\* OCRDebouncer.add
add(d, raw_text) ==
    [d EXCEPT !.q = deque_append(d.q, d.history_len, normalize_for_vote(raw_text))]

Count(q, v) == Cardinality({i \in 1..Len(q) : q[i] = v})
FirstIndex(q, v) == CHOOSE i \in 1..Len(q) : q[i] = v /\ \A j \in 1..(i - 1) : q[j] # v

\* Mutant of most_common: among equal counts the value inserted last wins.
Mut_most_common_last_wins(q) ==
    LET v == CHOOSE x \in {q[i] : i \in 1..Len(q)} :
                 \A y \in {q[i] : i \in 1..Len(q)} :
                     \/ Count(q, y) < Count(q, x)
                     \/ Count(q, y) = Count(q, x) /\ FirstIndex(q, x) >= FirstIndex(q, y)
    IN  [value |-> v, count |-> Count(q, v)]

\* Counter(q).most_common(1)[0]: the highest count; among equal counts the
\* value inserted first into the Counter, i.e. occurring first in the window.
most_common(q) ==
    LET v == CHOOSE x \in {q[i] : i \in 1..Len(q)} :
                 \A y \in {q[i] : i \in 1..Len(q)} :
                     \/ Count(q, y) < Count(q, x)
                     \/ Count(q, y) = Count(q, x) /\ FirstIndex(q, x) <= FirstIndex(q, y)
    IN  [value |-> v, count |-> Count(q, v)]

\* sum(1 for t in q if text_similarity(candidate, t) >= similarity_vote)
similar_count(d, candidate) ==
    Cardinality({i \in 1..Len(d.q) : similar_at_least(candidate, d.q[i], d.similarity_vote)})

\* Mutant of best_representative: an equal count replaces the candidate kept.
RECURSIVE Mut_best_representative_later_wins(_, _, _, _, _)
Mut_best_representative_later_wins(d, i, best_count, best, seen) ==
    IF i > Len(d.q) THEN best
    ELSE LET candidate == d.q[i]
             count == similar_count(d, candidate)
         IN  IF candidate \in seen
             THEN Mut_best_representative_later_wins(d, i + 1, best_count, best, seen)
             ELSE IF count >= d.min_votes /\ count >= best_count
             THEN Mut_best_representative_later_wins(d, i + 1, count, <<candidate>>,
                                                     seen \cup {candidate})
             ELSE Mut_best_representative_later_wins(d, i + 1, best_count, best,
                                                     seen \cup {candidate})

\* Mutant of best_representative: the quorum test `count >= min_votes` is lost.
RECURSIVE Mut_best_representative_no_quorum(_, _, _, _, _)
Mut_best_representative_no_quorum(d, i, best_count, best, seen) ==
    IF i > Len(d.q) THEN best
    ELSE LET candidate == d.q[i]
             count == similar_count(d, candidate)
         IN  IF candidate \in seen
             THEN Mut_best_representative_no_quorum(d, i + 1, best_count, best, seen)
             ELSE IF count > best_count
             THEN Mut_best_representative_no_quorum(d, i + 1, count, <<candidate>>,
                                                    seen \cup {candidate})
             ELSE Mut_best_representative_no_quorum(d, i + 1, best_count, best,
                                                    seen \cup {candidate})

\* The loop of get_stable() in similarity mode, from position i on.
RECURSIVE best_representative(_, _, _, _, _)
best_representative(d, i, best_count, best, seen) ==
    IF i > Len(d.q) THEN best
    ELSE LET candidate == d.q[i]
             count == similar_count(d, candidate)
         IN  IF candidate \in seen
             THEN best_representative(d, i + 1, best_count, best, seen)
             ELSE IF count >= d.min_votes /\ count > best_count
             THEN best_representative(d, i + 1, count, <<candidate>>, seen \cup {candidate})
             ELSE best_representative(d, i + 1, best_count, best, seen \cup {candidate})

\* OCRDebouncer.get_stable
get_stable(d) ==
    IF d.q = <<>> THEN <<>>
    ELSE IF d.similarity_vote <= 0
    THEN IF most_common(d.q).count >= d.min_votes
         THEN most_common(d.q).value
         ELSE d.q[Len(d.q)]
    ELSE LET best == best_representative(d, 1, 0, <<>>, {}) IN
         IF best # <<>> THEN best[1] ELSE d.q[Len(d.q)]

\* The loop of is_stable() in similarity mode, from position i on.
RECURSIVE best_count_from(_, _, _)
best_count_from(d, i, best_count) ==
    IF i > Len(d.q) THEN best_count
    ELSE best_count_from(d, i + 1, Max2(best_count, similar_count(d, d.q[i])))

\* Mutant of is_stable: exactly min_votes votes are not enough.
Mut_is_stable_strict(d) ==
    IF d.q = <<>> THEN FALSE
    ELSE IF d.similarity_vote <= 0
    THEN most_common(d.q).count > d.min_votes
    ELSE best_count_from(d, 1, 0) > d.min_votes

\* OCRDebouncer.is_stable
is_stable(d) ==
    IF d.q = <<>> THEN FALSE
    ELSE IF d.similarity_vote <= 0
    THEN most_common(d.q).count >= d.min_votes
    ELSE best_count_from(d, 1, 0) >= d.min_votes

\* Mutant of is_soft_stable: the stable text is compared with the oldest
\* sample of the window instead of the latest.
Mut_is_soft_stable_oldest(d, pct) ==
    IF d.q = <<>> THEN FALSE
    ELSE similar_at_least(get_stable(d), d.q[1], pct)

\* OCRDebouncer.is_soft_stable, the threshold in percent
is_soft_stable(d, pct) ==
    IF d.q = <<>> THEN FALSE
    ELSE similar_at_least(get_stable(d), d.q[Len(d.q)], pct)

(***************************************************************************)
(* agents/agent_e.py: LLMCache.  An Optional value is a sequence of length *)
(* at most one; an absent text (None) is NoneText.                         *)
(***************************************************************************)
NoneText == <<"None">>
AUTO == <<"a", "u", "t", "o">>
EN == <<"e", "n">>

\* LLMCache.__init__
LLMCache(max_size, ttl_sec) ==
    [ data |-> <<>>, max_size |-> Max2(1, max_size), ttl |-> Max2(1, ttl_sec) ]

\* Mutant of make_key: the language hint is left out of the key.
Mut_make_key_no_hint(text, lang_hint) ==
    normalize_text(text) \o <<"|", "|">> \o AUTO

\* LLMCache._make_key: f"{base}||{lang_hint or 'auto'}"
make_key(text, lang_hint) ==
    normalize_text(text) \o <<"|", "|">>
        \o (IF lang_hint = NoneText \/ lang_hint = <<>> THEN AUTO ELSE lang_hint)

\* OrderedDict: key in data, data.pop(key), data[key] = entry (at the end),
\* data.popitem(last=False)
od_has(data, key) == \E i \in 1..Len(data) : data[i].key = key
od_index(data, key) == CHOOSE i \in 1..Len(data) : data[i].key = key
od_pop(data, key) ==
    LET i == od_index(data, key) IN SubSeq(data, 1, i - 1) \o SubSeq(data, i + 1, Len(data))
od_keys(data) == {data[i].key : i \in 1..Len(data)}

\* Mutant of expired: an entry exactly TTL old already counts as expired.
Mut_expired_at_ttl(c, entry, t) == t - entry.ts >= c.ttl

\* the TTL test of get(): time.monotonic() - entry["ts"] > self._ttl
expired(c, entry, t) == t - entry.ts > c.ttl

\* Mutant of CacheGet: a hit stamps the entry with the time of the hit.
Mut_CacheGet_refresh_ts(c, text, lang_hint, t) ==
    LET key == make_key(text, lang_hint) IN
    IF ~od_has(c.data, key) THEN [cache |-> c, entry |-> <<>>]
    ELSE LET entry == c.data[od_index(c.data, key)]
             popped == od_pop(c.data, key)
         IN  IF expired(c, entry, t)
             THEN [cache |-> [c EXCEPT !.data = popped], entry |-> <<>>]
             ELSE [cache |-> [c EXCEPT !.data = popped \o <<[entry EXCEPT !.ts = t]>>],
                   entry |-> <<[entry EXCEPT !.ts = t]>>]

\* Mutant of CacheGet: a hit leaves the entry at its place in the order.
Mut_CacheGet_no_recency(c, text, lang_hint, t) ==
    LET key == make_key(text, lang_hint) IN
    IF ~od_has(c.data, key) THEN [cache |-> c, entry |-> <<>>]
    ELSE LET entry == c.data[od_index(c.data, key)]
             popped == od_pop(c.data, key)
         IN  IF expired(c, entry, t)
             THEN [cache |-> [c EXCEPT !.data = popped], entry |-> <<>>]
             ELSE [cache |-> c, entry |-> <<entry>>]

\* LLMCache.get: the cache afterwards and the Optional entry returned
CacheGet(c, text, lang_hint, t) ==
    LET key == make_key(text, lang_hint) IN
    IF ~od_has(c.data, key) THEN [cache |-> c, entry |-> <<>>]
    ELSE LET entry == c.data[od_index(c.data, key)]
             popped == od_pop(c.data, key)
         IN  IF expired(c, entry, t)
             THEN [cache |-> [c EXCEPT !.data = popped], entry |-> <<>>]
             ELSE [cache |-> [c EXCEPT !.data = popped \o <<entry>>],
                   entry |-> <<entry>>]

\* while len(data) > max_size: data.popitem(last=False)
RECURSIVE evict(_, _)
evict(data, max_size) ==
    IF Len(data) > max_size THEN evict(Tail(data), max_size) ELSE data

\* LLMCache.put (confidence, language_hint and llm_ms are payload only)
CachePut(c, text, lang_hint, corrected, t) ==
    LET key == make_key(text, lang_hint)
        entry == [key |-> key, corrected |-> corrected, ts |-> t]
        without == IF od_has(c.data, key) THEN od_pop(c.data, key) ELSE c.data
    IN  [c EXCEPT !.data = evict(without \o <<entry>>, c.max_size)]

(***************************************************************************)
(* agents/agent_e.py: LLMThrottler                                         *)
(***************************************************************************)
\* LLMThrottler.__init__
LLMThrottler(min_interval_ms) ==
    [ interval |-> Max2(0, min_interval_ms), last_call_ts_ms |-> 0 ]

\* Mutant of can_call: once a request was denied, every later one is denied.
Mut_can_call_denial_stays(th, t) ==
    IF th.interval <= 0 THEN [thr |-> th, ok |-> TRUE]
    ELSE LET now_ms == t * 1000 IN
         IF now_ms - th.last_call_ts_ms >= th.interval /\ th.last_call_ts_ms >= 0
         THEN [thr |-> [th EXCEPT !.last_call_ts_ms = now_ms], ok |-> TRUE]
         ELSE [thr |-> [th EXCEPT !.last_call_ts_ms = 0 - 1], ok |-> FALSE]

\* Mutant of can_call: a denied request stamps the time as well.
Mut_can_call_denial_stamps(th, t) ==
    IF th.interval <= 0 THEN [thr |-> th, ok |-> TRUE]
    ELSE LET now_ms == t * 1000 IN
         [thr |-> [th EXCEPT !.last_call_ts_ms = now_ms],
          ok |-> now_ms - th.last_call_ts_ms >= th.interval]

\* Mutant of can_call: every request is granted.
Mut_can_call_always(th, t) == [thr |-> [th EXCEPT !.last_call_ts_ms = t * 1000], ok |-> TRUE]

\* Mutant of can_call: the interval must be exceeded, not just reached.
Mut_can_call_strict(th, t) ==
    IF th.interval <= 0 THEN [thr |-> th, ok |-> TRUE]
    ELSE LET now_ms == t * 1000 IN
         IF now_ms - th.last_call_ts_ms > th.interval
         THEN [thr |-> [th EXCEPT !.last_call_ts_ms = now_ms], ok |-> TRUE]
         ELSE [thr |-> th, ok |-> FALSE]

\* LLMThrottler.can_call: the throttler afterwards and the answer
can_call(th, t) ==
    IF th.interval <= 0 THEN [thr |-> th, ok |-> TRUE]
    ELSE LET now_ms == t * 1000 IN
         IF now_ms - th.last_call_ts_ms >= th.interval
         THEN [thr |-> [th EXCEPT !.last_call_ts_ms = now_ms], ok |-> TRUE]
         ELSE [thr |-> th, ok |-> FALSE]

(***************************************************************************)
(* worker.py: _CircuitBreaker                                              *)
(***************************************************************************)
\* _CircuitBreaker.__init__
CircuitBreaker(failure_threshold, cooldown_sec) ==
    [ failure_threshold    |-> failure_threshold,
      cooldown_sec         |-> cooldown_sec,
      consecutive_failures |-> 0,
      last_failure_time    |-> 0 ]

\* Mutant of record_success: a success takes one failure off the counter.
Mut_record_success_decrement(b) ==
    [b EXCEPT !.consecutive_failures = Max2(0, @ - 1)]

\* _CircuitBreaker.record_success
record_success(b) == [b EXCEPT !.consecutive_failures = 0]

\* Mutant of record_failure: a failure recorded on a breaker that had
\* reached the threshold starts a new count (a half-open probe).
Mut_record_failure_restarts(b, t) ==
    [b EXCEPT !.consecutive_failures =
                  IF @ >= b.failure_threshold THEN 1 ELSE @ + 1,
              !.last_failure_time = t]

\* _CircuitBreaker.record_failure
record_failure(b, t) ==
    [b EXCEPT !.consecutive_failures = @ + 1, !.last_failure_time = t]

\* Mutant of is_open: still open at the instant the cooldown has elapsed.
Mut_is_open_inclusive(b, t) ==
    IF b.consecutive_failures < b.failure_threshold THEN FALSE
    ELSE (t - b.last_failure_time) <= b.cooldown_sec

\* _CircuitBreaker.is_open
is_open(b, t) ==
    IF b.consecutive_failures < b.failure_threshold THEN FALSE
    ELSE (t - b.last_failure_time) < b.cooldown_sec

(***************************************************************************)
(* shared_state.py: SharedState (frame slot, frame counters, result slot). *)
(* A frame is the number of the set_frame call that published it; fusion   *)
(* and the motion check are off, as config.py sets them.                   *)
(***************************************************************************)
NoFrame == <<>>

\* DisplayResult (confidence and the two latencies are payload only)
DisplayResult(raw_ocr, debounced_ocr, corrected, ocr_ok, llm_ok, error_msg) ==
    [ raw_ocr |-> raw_ocr, debounced_ocr |-> debounced_ocr, corrected |-> corrected,
      ocr_ok |-> ocr_ok, llm_ok |-> llm_ok, error_msg |-> error_msg ]

\* SharedState.__init__
SharedState ==
    [ latest_result        |-> DisplayResult(<<>>, <<>>, <<>>, TRUE, TRUE, None),
      current_frame        |-> NoFrame,
      frame_count          |-> 0,
      last_ocr_frame_count |-> -999,
      pending_command      |-> <<>>,
      content_for_command  |-> <<>>,
      vision_llm_text      |-> <<>>,
      cross_validated_text |-> <<>>,
      pending_chat_message |-> <<>>,
      last_ocr_frame       |-> NoFrame,
      lock                 |-> None ]

\* str.strip()
RECURSIVE lstrip(_)
lstrip(text) == IF text # <<>> /\ Head(text) = SP THEN lstrip(Tail(text)) ELSE text
RECURSIVE rstrip(_)
rstrip(text) ==
    IF text # <<>> /\ text[Len(text)] = SP THEN rstrip(SubSeq(text, 1, Len(text) - 1))
    ELSE text
strip(text) == rstrip(lstrip(text))

\* SharedState.set_pending_chat: (message or "").strip() or None
set_pending_chat(s, message) ==
    [s EXCEPT !.pending_chat_message =
        IF strip(message) = <<>> THEN <<>> ELSE <<strip(message)>>]

\* Mutant of get_and_clear_pending_chat: the slot is read but not cleared.
Mut_get_and_clear_pending_chat_keeps(s) ==
    [st |-> s, msg |-> s.pending_chat_message]

\* SharedState.get_and_clear_pending_chat: the state afterwards and the Optional message
get_and_clear_pending_chat(s) ==
    [st |-> [s EXCEPT !.pending_chat_message = <<>>], msg |-> s.pending_chat_message]

\* SharedState.set_pending_user_command
set_pending_user_command(s, cmd, content) ==
    [s EXCEPT !.pending_command = <<cmd>>, !.content_for_command = strip(content)]

\* SharedState.get_and_clear_pending_command: the state afterwards, the Optional
\* command and its content
get_and_clear_pending_command(s) ==
    [ st |-> [s EXCEPT !.pending_command = <<>>, !.content_for_command = <<>>],
      cmd |-> s.pending_command, content |-> s.content_for_command ]

\* SharedState.set_vision_and_cross_validated
set_vision_and_cross_validated(s, vision_text, cross_text) ==
    [s EXCEPT !.vision_llm_text = strip(vision_text),
              !.cross_validated_text = strip(cross_text)]

\* SharedState.set_last_ocr_frame
set_last_ocr_frame(s, frame) == [s EXCEPT !.last_ocr_frame = frame]

\* `with self._lock:` entered by thread t (threading.Lock: not reentrant)
lock_free(s) == s.lock = None
lock_acquire(s, t) == [s EXCEPT !.lock = t]

\* Mutant of lock_release: the lock taken for get_frame_for_ocr is kept.
Mut_lock_release_not_after_take(s, call) ==
    IF call = "get_frame_for_ocr" THEN s ELSE [s EXCEPT !.lock = None]

\* the end of the `with self._lock:` block of the method `call`
lock_release(s, call) == [s EXCEPT !.lock = None]

\* SharedState.get_pending_frames_count
get_pending_frames_count(s) == Max2(0, s.frame_count - s.last_ocr_frame_count)

\* SharedState.get_latest_result: a new DisplayResult with the nine fields of
\* latest_result and the two vision fields of the SharedState itself
get_latest_result(s) ==
    [ raw_ocr |-> s.latest_result.raw_ocr,
      debounced_ocr |-> s.latest_result.debounced_ocr,
      corrected |-> s.latest_result.corrected,
      ocr_ok |-> s.latest_result.ocr_ok,
      llm_ok |-> s.latest_result.llm_ok,
      error_msg |-> s.latest_result.error_msg,
      vision_llm_text |-> s.vision_llm_text,
      cross_validated_text |-> s.cross_validated_text ]

\* Mutant of set_frame: a frame not yet taken is kept, the new one is dropped.
Mut_set_frame_keeps_untaken(s, frame) ==
    IF s.current_frame # NoFrame /\ s.frame_count - s.last_ocr_frame_count > 0
    THEN [s EXCEPT !.frame_count = @ + 1]
    ELSE [s EXCEPT !.current_frame = <<frame>>, !.frame_count = @ + 1]

\* SharedState.set_frame
set_frame(s, frame) ==
    [s EXCEPT !.current_frame = <<frame>>, !.frame_count = @ + 1]

\* Mutant of get_frame_for_ocr: a gap of exactly skip frames is still too small.
Mut_get_frame_for_ocr_strict(s, skip) ==
    IF s.current_frame = NoFrame THEN [st |-> s, frame |-> NoFrame]
    ELSE IF s.frame_count - s.last_ocr_frame_count <= skip THEN [st |-> s, frame |-> NoFrame]
    ELSE [ st |-> [s EXCEPT !.last_ocr_frame_count = s.frame_count],
           frame |-> s.current_frame ]

\* SharedState.get_frame_for_ocr: the state afterwards and the Optional frame
get_frame_for_ocr(s, skip) ==
    IF s.current_frame = NoFrame THEN [st |-> s, frame |-> NoFrame]
    ELSE IF s.frame_count - s.last_ocr_frame_count < skip THEN [st |-> s, frame |-> NoFrame]
    ELSE [ st |-> [s EXCEPT !.last_ocr_frame_count = s.frame_count],
           frame |-> s.current_frame ]

\* SharedState.set_latest_result
set_latest_result(s, raw_ocr, corrected, ocr_ok, llm_ok, error_msg, debounced_ocr) ==
    [s EXCEPT !.latest_result =
        DisplayResult(raw_ocr, debounced_ocr, corrected, ocr_ok, llm_ok, error_msg)]

(***************************************************************************)
(* worker.py: _pipeline_loop.  The configuration is scaled to the model:   *)
(* the window, the TTL, the interval and the cooldown are a few samples    *)
(* and a few seconds long.                                                 *)
(***************************************************************************)
config ==
    [ FRAME_SKIP                       |-> 1,
      OCR_DEBOUNCE_HISTORY_LEN         |-> 2,
      OCR_DEBOUNCE_MIN_VOTES           |-> 2,
      OCR_DEBOUNCE_SIMILARITY_VOTE     |-> 88,
      OCR_SOFT_STABLE_ENABLED          |-> TRUE,
      OCR_SOFT_STABLE_SIMILARITY       |-> 92,
      LLM_CACHE_MAX_SIZE               |-> 2,
      LLM_CACHE_TTL_SEC                |-> 2,
      LLM_MIN_INTERVAL_MS              |-> 1000,
      LLM_CIRCUIT_BREAKER_FAILURES     |-> 2,
      LLM_CIRCUIT_BREAKER_COOLDOWN_SEC |-> 2 ]

OCR_FAILED == <<"(OCR failed)">>
BREAKER_OPEN_MSG == "LLM circuit breaker open (degraded: original text)"

\* x or y, on texts
TextOr(x, y) == IF x # <<>> THEN x ELSE y

\* the locals of _pipeline_loop before the first cycle
PipelineLocals ==
    [ pending_llm |-> <<>>, last_sent_text |-> NoneText, last_corrected |-> NoneText ]

\* last_llm_lang_hint is never assigned after its initialisation
last_llm_lang_hint == NoneText

\* Mutant of gate: the same-text test comes before the cache.
Mut_gate_dedup_first(p, c, th, b, stable_text, t) ==
    LET got == CacheGet(c, stable_text, last_llm_lang_hint, t)
        asked == can_call(th, t)
    IN  IF /\ p.last_sent_text # NoneText /\ p.last_corrected # NoneText
           /\ stable_text = p.last_sent_text
        THEN [branch |-> "dedup", cache |-> c, thr |-> th, entry |-> <<>>]
        ELSE IF got.entry # <<>>
        THEN [branch |-> "cache_hit", cache |-> got.cache, thr |-> th, entry |-> got.entry]
        ELSE IF is_open(b, t)
        THEN [branch |-> "breaker_open", cache |-> got.cache, thr |-> th, entry |-> <<>>]
        ELSE IF ~asked.ok
        THEN [branch |-> "throttled", cache |-> got.cache, thr |-> asked.thr, entry |-> <<>>]
        ELSE IF p.pending_llm # <<>>
        THEN [branch |-> "busy", cache |-> got.cache, thr |-> asked.thr, entry |-> <<>>]
        ELSE [branch |-> "dispatch", cache |-> got.cache, thr |-> asked.thr, entry |-> <<>>]

\* Mutant of gate: the cache is not consulted.
Mut_gate_no_cache_test(p, c, th, b, stable_text, t) ==
    LET asked == can_call(th, t)
    IN  IF /\ p.last_sent_text # NoneText /\ p.last_corrected # NoneText
           /\ stable_text = p.last_sent_text
        THEN [branch |-> "dedup", cache |-> c, thr |-> th, entry |-> <<>>]
        ELSE IF is_open(b, t)
        THEN [branch |-> "breaker_open", cache |-> c, thr |-> th, entry |-> <<>>]
        ELSE IF ~asked.ok
        THEN [branch |-> "throttled", cache |-> c, thr |-> asked.thr, entry |-> <<>>]
        ELSE IF p.pending_llm # <<>>
        THEN [branch |-> "busy", cache |-> c, thr |-> asked.thr, entry |-> <<>>]
        ELSE [branch |-> "dispatch", cache |-> c, thr |-> asked.thr, entry |-> <<>>]

\* Mutant of gate: the test for an outstanding call comes before the
\* throttle, so that a cycle that finds one does not ask the throttler.
Mut_gate_pending_before_throttle(p, c, th, b, stable_text, t) ==
    LET got == CacheGet(c, stable_text, last_llm_lang_hint, t)
        asked == can_call(th, t)
    IN  IF got.entry # <<>>
        THEN [branch |-> "cache_hit", cache |-> got.cache, thr |-> th, entry |-> got.entry]
        ELSE IF /\ p.last_sent_text # NoneText /\ p.last_corrected # NoneText
                /\ stable_text = p.last_sent_text
        THEN [branch |-> "dedup", cache |-> got.cache, thr |-> th, entry |-> <<>>]
        ELSE IF is_open(b, t)
        THEN [branch |-> "breaker_open", cache |-> got.cache, thr |-> th, entry |-> <<>>]
        ELSE IF p.pending_llm # <<>>
        THEN [branch |-> "busy", cache |-> got.cache, thr |-> th, entry |-> <<>>]
        ELSE IF ~asked.ok
        THEN [branch |-> "throttled", cache |-> got.cache, thr |-> asked.thr, entry |-> <<>>]
        ELSE [branch |-> "dispatch", cache |-> got.cache, thr |-> asked.thr, entry |-> <<>>]

\* Mutant of gate: the test `pending_llm is not None` before submitting is lost.
Mut_gate_no_pending_test(p, c, th, b, stable_text, t) ==
    LET got == CacheGet(c, stable_text, last_llm_lang_hint, t)
        asked == can_call(th, t)
    IN  IF got.entry # <<>>
        THEN [branch |-> "cache_hit", cache |-> got.cache, thr |-> th, entry |-> got.entry]
        ELSE IF /\ p.last_sent_text # NoneText /\ p.last_corrected # NoneText
                /\ stable_text = p.last_sent_text
        THEN [branch |-> "dedup", cache |-> got.cache, thr |-> th, entry |-> <<>>]
        ELSE IF is_open(b, t)
        THEN [branch |-> "breaker_open", cache |-> got.cache, thr |-> th, entry |-> <<>>]
        ELSE IF ~asked.ok
        THEN [branch |-> "throttled", cache |-> got.cache, thr |-> asked.thr, entry |-> <<>>]
        ELSE [branch |-> "dispatch", cache |-> got.cache, thr |-> asked.thr, entry |-> <<>>]

\* Mutant of gate: the breaker is consulted only after the throttle and the
\* test for an outstanding call, i.e. too late to stop a submission.
Mut_gate_breaker_last(p, c, th, b, stable_text, t) ==
    LET got == CacheGet(c, stable_text, last_llm_lang_hint, t)
        asked == can_call(th, t)
    IN  IF got.entry # <<>>
        THEN [branch |-> "cache_hit", cache |-> got.cache, thr |-> th, entry |-> got.entry]
        ELSE IF /\ p.last_sent_text # NoneText /\ p.last_corrected # NoneText
                /\ stable_text = p.last_sent_text
        THEN [branch |-> "dedup", cache |-> got.cache, thr |-> th, entry |-> <<>>]
        ELSE IF ~asked.ok
        THEN [branch |-> "throttled", cache |-> got.cache, thr |-> asked.thr, entry |-> <<>>]
        ELSE IF p.pending_llm # <<>>
        THEN [branch |-> "busy", cache |-> got.cache, thr |-> asked.thr, entry |-> <<>>]
        ELSE [branch |-> "dispatch", cache |-> got.cache, thr |-> asked.thr, entry |-> <<>>]

\* The tests a cycle applies to a non-empty, (soft-)stable text, in the order
\* of the code: cache, same text as last sent, breaker, throttle, outstanding
\* call.  Yields the branch taken and the cache and throttler afterwards.
gate(p, c, th, b, stable_text, t) ==
    LET got == CacheGet(c, stable_text, last_llm_lang_hint, t)
        asked == can_call(th, t)
    IN  IF got.entry # <<>>
        THEN [branch |-> "cache_hit", cache |-> got.cache, thr |-> th, entry |-> got.entry]
        ELSE IF /\ p.last_sent_text # NoneText /\ p.last_corrected # NoneText
                /\ stable_text = p.last_sent_text
        THEN [branch |-> "dedup", cache |-> got.cache, thr |-> th, entry |-> <<>>]
        ELSE IF is_open(b, t)
        THEN [branch |-> "breaker_open", cache |-> got.cache, thr |-> th, entry |-> <<>>]
        ELSE IF ~asked.ok
        THEN [branch |-> "throttled", cache |-> got.cache, thr |-> asked.thr, entry |-> <<>>]
        ELSE IF p.pending_llm # <<>>
        THEN [branch |-> "busy", cache |-> got.cache, thr |-> asked.thr, entry |-> <<>>]
        ELSE [branch |-> "dispatch", cache |-> got.cache, thr |-> asked.thr, entry |-> <<>>]

\* Mutant of early_branch: an empty stable text goes on to the tests.
Mut_early_branch_empty_goes_on(d, raw_text, ocr_ok) ==
    LET stable_text == get_stable(d)
        soft_stable ==
            \/ is_stable(d)
            \/ /\ config.OCR_SOFT_STABLE_ENABLED
               /\ stable_text # <<>> /\ raw_text # <<>>
               /\ similar_at_least(stable_text, raw_text, config.OCR_SOFT_STABLE_SIMILARITY)
    IN  IF ~ocr_ok THEN "ocr_fail"
        ELSE IF ~soft_stable THEN "preview"
        ELSE "gate"

\* Mutant of early_branch: the test `if not ocr_ok` is lost.
Mut_early_branch_no_fail_test(d, raw_text, ocr_ok) ==
    LET stable_text == get_stable(d)
        soft_stable ==
            \/ is_stable(d)
            \/ /\ config.OCR_SOFT_STABLE_ENABLED
               /\ stable_text # <<>> /\ raw_text # <<>>
               /\ similar_at_least(stable_text, raw_text, config.OCR_SOFT_STABLE_SIMILARITY)
    IN  IF stable_text = <<>> \/ ~soft_stable THEN "preview"
        ELSE "gate"

\* What the cycle does with a recognition result, before any gate: "ocr_fail",
\* "preview" (no text, or not stable) or "gate".
early_branch(d, raw_text, ocr_ok) ==
    LET stable_text == get_stable(d)
        soft_stable ==
            \/ is_stable(d)
            \/ /\ config.OCR_SOFT_STABLE_ENABLED
               /\ stable_text # <<>> /\ raw_text # <<>>
               /\ similar_at_least(stable_text, raw_text, config.OCR_SOFT_STABLE_SIMILARITY)
    IN  IF ~ocr_ok THEN "ocr_fail"
        ELSE IF stable_text = <<>> \/ ~soft_stable THEN "preview"
        ELSE "gate"


(***************************************************************************)
(* Values of the variables a specification does not use.                   *)
(***************************************************************************)
IdleDeb == OCRDebouncer(1, 1, 0)
IdleCache == LLMCache(1, 1)
IdleThr == LLMThrottler(0)
IdleCb == CircuitBreaker(1, 1)
IdleRet == [op |-> "none"]
IdleHist == <<>>
IdlePipe ==
    /\ st = SharedState /\ pl = PipelineLocals
    /\ futures = {} /\ calls = 0 /\ pc = "idle"

pipeVars == <<st, pl, futures, calls, pc>>

vars == <<now, deb, cache, thr, cb, ret, hist, st, pl, futures, calls, pc>>

\* The clock advances (between any two calls), up to a bound.
TickTo(bound) ==
    /\ now < bound
    /\ now' = now + 1
    /\ UNCHANGED <<deb, cache, thr, cb, ret, hist, pipeVars>>

(***************************************************************************)
(* SpecDeb: an OCRDebouncer built with any parameters, fed any samples.    *)
(***************************************************************************)
InitDeb ==
    /\ now = 0
    /\ deb \in { OCRDebouncer(h, m, sv) :
                   h \in 0..MaxHistoryLen, m \in 0..MaxHistoryLen, sv \in SimilarityVotes }
    /\ cache = IdleCache /\ thr = IdleThr /\ cb = IdleCb
    /\ ret = IdleRet /\ hist = IdleHist
    /\ IdlePipe

\* debouncer.add(raw_text)
DebAdd ==
    /\ \E raw \in RawSamples :
         /\ deb' = add(deb, raw)
         /\ ret' = [op |-> "add", raw |-> raw]
    /\ UNCHANGED <<now, cache, thr, cb, hist, pipeVars>>

NextDeb == DebAdd

SpecDeb == InitDeb /\ [][NextDeb]_vars

Values(q) == {q[i] : i \in 1..Len(q)}
Last(q) == q[Len(q)]

\* C3 as stated: in exact mode every value with at least min_votes
\* occurrences in the window is what get_stable() returns, and is_stable().
C3_AnyQuorumValueIsReturned ==
    deb.similarity_vote = 0 =>
        \A v \in Values(deb.q) :
            Count(deb.q, v) >= deb.min_votes => get_stable(deb) = v /\ is_stable(deb)

\* C3 amended: in exact mode, when some value v occurs at least min_votes
\* times, is_stable() is true and get_stable() returns a value that occurs at
\* least min_votes times and at least as often as v; it returns v itself when
\* every other value occurs less often, or as often but first appears later.
C3_MostFrequentQuorumValueIsReturned ==
    deb.similarity_vote = 0 =>
        \A v \in Values(deb.q) :
            Count(deb.q, v) >= deb.min_votes =>
                /\ is_stable(deb)
                /\ Count(deb.q, get_stable(deb)) >= deb.min_votes
                /\ Count(deb.q, get_stable(deb)) >= Count(deb.q, v)
                /\ (\A w \in Values(deb.q) \ {v} :
                        \/ Count(deb.q, w) < Count(deb.q, v)
                        \/ /\ Count(deb.q, w) = Count(deb.q, v)
                           /\ FirstIndex(deb.q, v) < FirstIndex(deb.q, w))
                   => get_stable(deb) = v

\* A full window in exact mode whose quorum value is not the latest sample.
C3_Witness ==
    /\ deb.similarity_vote = 0
    /\ ret.op = "add"
    /\ deb.min_votes >= 2
    /\ \E v \in Values(deb.q) :
         /\ Count(deb.q, v) >= deb.min_votes
         /\ Last(deb.q) # v
         /\ get_stable(deb) = v

\* No value (exact mode) or similarity cluster (similarity mode) reaches min_votes.
NoQuorum(d) ==
    IF d.similarity_vote <= 0
    THEN \A v \in Values(d.q) : Count(d.q, v) < d.min_votes
    ELSE \A i \in 1..Len(d.q) : similar_count(d, d.q[i]) < d.min_votes

\* C4: without a quorum get_stable() is the normalised form of the sample
\* added last and is_stable() is false; on the empty window get_stable() is
\* "" and is_stable() is false.
C4_NoQuorumReturnsLatest ==
    /\ deb.q = <<>> => get_stable(deb) = <<>> /\ ~is_stable(deb)
    /\ (deb.q # <<>> /\ NoQuorum(deb)) =>
          /\ get_stable(deb) = Last(deb.q)
          /\ ret.op = "add" /\ get_stable(deb) = normalize_for_vote(ret.raw)
          /\ ~is_stable(deb)

\* A similarity-mode window of several distinct samples without a quorum,
\* the latest of which was normalised by add().
C4_Witness ==
    /\ deb.similarity_vote > 0
    /\ Len(deb.q) >= 3
    /\ NoQuorum(deb)
    /\ \E i \in 1..Len(deb.q) : similar_count(deb, deb.q[i]) >= 2
    /\ ret.op = "add" /\ ret.raw # normalize_for_vote(ret.raw)
    /\ get_stable(deb) = Last(deb.q)

(***************************************************************************)
(* SpecCache: an LLMCache built with any parameters, under any sequence of *)
(* put and get calls while the clock advances.                             *)
(*   hist.puts: for each key, its last put (corrected text, time, whether  *)
(*              a get has hit it since), unless capacity evicted it since. *)
(*   hist.lru : the stored keys, least recently used (put or hit) first.   *)
(***************************************************************************)
CacheSizes == {0, 1, 2}
CacheTTLs == {0, 2}
CacheArgs == { <<(<<"a">>), NoneText>>, <<(<<SP, "a">>), NoneText>>,
               <<(<<"b">>), NoneText>>, <<(<<"a">>), EN>> }
CorrectedTexts == { <<"A">>, <<"B">> }

InitCache ==
    /\ now = 0
    /\ cache \in { LLMCache(n, ttl) : n \in CacheSizes, ttl \in CacheTTLs }
    /\ deb = IdleDeb /\ thr = IdleThr /\ cb = IdleCb
    /\ ret = IdleRet
    /\ hist = [puts |-> {}, lru |-> <<>>]
    /\ IdlePipe

SeqWithout(q, x) == SelectSeq(q, LAMBDA y : y # x)
PriorPut(key) == {p \in hist.puts : p.key = key}

\* cache.put(text, lang_hint, corrected, ...)
CachePutOp ==
    /\ \E arg \in CacheArgs, v \in CorrectedTexts :
         LET key == make_key(arg[1], arg[2])
             after == CachePut(cache, arg[1], arg[2], v, now)
             gone == { e \in {cache.data[i] : i \in 1..Len(cache.data)} :
                         e.key # key /\ ~od_has(after.data, e.key) }
             others == SeqWithout(hist.lru, key)
         IN  /\ cache' = after
             /\ ret' = [ op |-> "put", key |-> key, t |-> now,
                         evicted |-> gone,
                         overflow |-> Len(others) + 1 > cache.max_size,
                         lru_victim |-> IF others = <<>> THEN <<>> ELSE <<Head(others)>> ]
             /\ hist' = [ puts |-> { p \in hist.puts :
                                       p.key # key /\ p.key \notin {e.key : e \in gone} }
                                   \cup {[key |-> key, corrected |-> v, t |-> now, hit |-> FALSE]},
                          lru  |-> SelectSeq(others \o <<key>>,
                                             LAMBDA k : k \notin {e.key : e \in gone}) ]
    /\ UNCHANGED <<now, deb, thr, cb, pipeVars>>

\* cache.get(text, lang_hint)
CacheGetOp ==
    /\ \E arg \in CacheArgs :
         LET key == make_key(arg[1], arg[2])
             got == CacheGet(cache, arg[1], arg[2], now)
             stored == od_has(cache.data, key)
         IN  /\ cache' = got.cache
             /\ ret' = [ op |-> "get", key |-> key, t |-> now, entry |-> got.entry,
                         prior |-> PriorPut(key),
                         was_mru |-> hist.lru # <<>> /\ Last(hist.lru) = key ]
             /\ hist' = [ puts |-> IF got.entry # <<>>
                                   THEN { IF p.key = key THEN [p EXCEPT !.hit = TRUE] ELSE p :
                                            p \in hist.puts }
                                   ELSE hist.puts,
                          lru  |-> IF got.entry # <<>> THEN SeqWithout(hist.lru, key) \o <<key>>
                                   ELSE IF stored THEN SeqWithout(hist.lru, key)
                                   ELSE hist.lru ]
    /\ UNCHANGED <<now, deb, thr, cb, pipeVars>>

CacheTick == TickTo(MaxCacheTime)

NextCache == CacheTick \/ CachePutOp \/ CacheGetOp

SpecCache == InitCache /\ [][NextCache]_vars

\* C5: a get of a key that was put, and not evicted since, returns the
\* corrected text of that put when at most TTL has elapsed since the put,
\* and nothing when more than TTL has elapsed.
C5_PutGetRoundTrip ==
    ret.op = "get" =>
        \A p \in ret.prior :
            IF ret.t - p.t <= cache.ttl
            THEN ret.entry # <<>> /\ ret.entry[1].corrected = p.corrected
            ELSE ret.entry = <<>>

\* A get that hits exactly TTL after the put.
C5_Witness ==
    /\ ret.op = "get"
    /\ ret.entry # <<>>
    /\ \E p \in ret.prior : ret.t - p.t = cache.ttl /\ ret.entry[1].corrected = p.corrected

\* C6: a get never returns an entry put more than TTL ago, and the stored
\* timestamp of every entry is the time of its last put, whatever hits it had.
C6_HitsDoNotExtendLifetime ==
    /\ (ret.op = "get" /\ ret.entry # <<>>) =>
          \E p \in ret.prior : ret.t - p.t <= cache.ttl /\ ret.entry[1].ts = p.t
    /\ \A i \in 1..Len(cache.data) :
          \E p \in hist.puts : p.key = cache.data[i].key /\ p.t = cache.data[i].ts

\* A get that finds the most recently used key, hit before, expired.
C6_Witness ==
    /\ ret.op = "get"
    /\ ret.entry = <<>>
    /\ ret.was_mru
    /\ \E p \in ret.prior : p.hit /\ ret.t - p.t > cache.ttl

\* C7: never more than max_size entries; a put keeps its own key, evicts
\* nothing unless it overflows, and then evicts exactly the key whose last
\* use (put or get hit) is the oldest.
C7_BoundedAndEvictsLRU ==
    /\ Len(cache.data) <= cache.max_size
    /\ ret.op = "put" =>
          /\ od_has(cache.data, ret.key)
          /\ IF ret.overflow
             THEN {e.key : e \in ret.evicted} = {ret.lru_victim[1]}
             ELSE ret.evicted = {}

\* A put that evicts a key inserted later than a surviving key that was read.
C7_Witness ==
    /\ ret.op = "put"
    /\ \E e \in ret.evicted :
         \E i \in 1..Len(cache.data) :
             /\ cache.data[i].key # ret.key
             /\ cache.data[i].ts < e.ts
             /\ \E p \in hist.puts : p.key = cache.data[i].key /\ p.hit

(***************************************************************************)
(* SpecThr: an LLMThrottler built with any interval, asked at any times.   *)
(*   hist.granted: the time (ms) of the last call that returned true.      *)
(*   hist.denied : whether a call was denied since.                        *)
(***************************************************************************)
ThrIntervals == {-1, 0, 1000, 2000}

InitThr ==
    /\ now = 0
    /\ thr \in { LLMThrottler(ms) : ms \in ThrIntervals }
    /\ deb = IdleDeb /\ cache = IdleCache /\ cb = IdleCb
    /\ ret = IdleRet
    /\ hist = [granted |-> <<>>, denied |-> FALSE]
    /\ IdlePipe

\* throttler.can_call()
ThrCanCall ==
    /\ LET got == can_call(thr, now) IN
         /\ thr' = got.thr
         /\ ret' = [ op |-> "can_call", ok |-> got.ok, t_ms |-> now * 1000,
                     prev_grant |-> hist.granted, denied_since |-> hist.denied ]
         /\ hist' = IF got.ok THEN [granted |-> <<now * 1000>>, denied |-> FALSE]
                    ELSE [hist EXCEPT !.denied = TRUE]
    /\ UNCHANGED <<now, deb, cache, cb, pipeVars>>

ThrTick == TickTo(MaxThrTime)

NextThr == ThrTick \/ ThrCanCall

SpecThr == InitThr /\ [][NextThr]_vars

\* C8: with a positive interval, a call made after a granted call returns
\* true exactly when at least the interval has elapsed since that grant.
C8_ThrottleInterval ==
    (ret.op = "can_call" /\ thr.interval > 0) =>
        \A g \in {ret.prev_grant[i] : i \in 1..Len(ret.prev_grant)} :
            ret.ok = (ret.t_ms - g >= thr.interval)

\* A call granted exactly one interval after the previous grant, after a
\* denied call in between.
C8_Witness ==
    /\ ret.op = "can_call" /\ thr.interval > 0
    /\ ret.ok /\ ret.denied_since
    /\ ret.prev_grant # <<>> /\ ret.t_ms - ret.prev_grant[1] = thr.interval

(***************************************************************************)
(* SpecBrk: a _CircuitBreaker built with any threshold and cooldown, under *)
(* any sequence of recorded outcomes while the clock advances.             *)
(*   hist.outcomes    : the outcomes recorded, "F" or "S", oldest first.   *)
(*   hist.last_failure: the time of the last recorded failure.             *)
(*   hist.prev_failure: the time of the failure recorded before that one.  *)
(***************************************************************************)
BrkThresholds == {1, 2, 3}
BrkCooldowns == {1, 2}

InitBrk ==
    /\ now = 0
    /\ cb \in { CircuitBreaker(n, c) : n \in BrkThresholds, c \in BrkCooldowns }
    /\ deb = IdleDeb /\ cache = IdleCache /\ thr = IdleThr
    /\ ret = IdleRet
    /\ hist = [outcomes |-> <<>>, last_failure |-> <<>>, prev_failure |-> <<>>]
    /\ IdlePipe

\* circuit_breaker.record_success()
BrkRecordSuccess ==
    /\ Len(hist.outcomes) < MaxOutcomes
    /\ cb' = record_success(cb)
    /\ ret' = [op |-> "record_success"]
    /\ hist' = [hist EXCEPT !.outcomes = @ \o <<"S">>]
    /\ UNCHANGED <<now, deb, cache, thr, pipeVars>>

\* circuit_breaker.record_failure()
BrkRecordFailure ==
    /\ Len(hist.outcomes) < MaxOutcomes
    /\ cb' = record_failure(cb, now)
    /\ ret' = [op |-> "record_failure"]
    /\ hist' = [outcomes |-> hist.outcomes \o <<"F">>, last_failure |-> <<now>>,
                prev_failure |-> hist.last_failure]
    /\ UNCHANGED <<now, deb, cache, thr, pipeVars>>

\* circuit_breaker.is_open()
BrkIsOpen ==
    /\ ret' = [op |-> "is_open", val |-> is_open(cb, now)]
    /\ UNCHANGED <<now, deb, cache, thr, cb, hist, pipeVars>>

BrkTick == TickTo(MaxBrkTime)

NextBrk == BrkTick \/ BrkRecordSuccess \/ BrkRecordFailure \/ BrkIsOpen

SpecBrk == InitBrk /\ [][NextBrk]_vars

\* The number of failures recorded since the last success.
RECURSIVE TrailingFailures(_)
TrailingFailures(o) ==
    IF o = <<>> \/ Last(o) = "S" THEN 0
    ELSE 1 + TrailingFailures(SubSeq(o, 1, Len(o) - 1))

\* C9: on a breaker that has recorded only failures, is_open() is false
\* below failure_threshold failures; from the threshold-th failure on it is
\* true exactly while less than cooldown has elapsed since the last failure.
C9_OpensAtThresholdUntilCooldown ==
    (\A i \in 1..Len(hist.outcomes) : hist.outcomes[i] = "F") =>
        /\ Len(hist.outcomes) < cb.failure_threshold => ~is_open(cb, now)
        /\ Len(hist.outcomes) >= cb.failure_threshold =>
              is_open(cb, now) = (now - hist.last_failure[1] < cb.cooldown_sec)

\* is_open() answered false at the instant the cooldown elapsed after exactly
\* failure_threshold failures.
C9_Witness ==
    /\ ret.op = "is_open" /\ ~ret.val
    /\ cb.failure_threshold >= 2
    /\ hist.outcomes = [i \in 1..cb.failure_threshold |-> "F"]
    /\ now - hist.last_failure[1] = cb.cooldown_sec

\* C10: the counter is the number of failures recorded since the last
\* success (0 right after a success), so the breaker is open only if the
\* last failure_threshold recorded outcomes were all failures.
C10_OnlyConsecutiveFailuresOpen ==
    /\ cb.consecutive_failures = TrailingFailures(hist.outcomes)
    /\ ret.op = "record_success" => cb.consecutive_failures = 0
    /\ is_open(cb, now) => TrailingFailures(hist.outcomes) >= cb.failure_threshold

\* failure_threshold failures were recorded, the last one just now, but a
\* success in between keeps the breaker closed.
C10_Witness ==
    /\ ~is_open(cb, now)
    /\ ret.op = "record_failure"
    /\ Cardinality({i \in 1..Len(hist.outcomes) : hist.outcomes[i] = "F"})
          >= cb.failure_threshold
    /\ now - hist.last_failure[1] < cb.cooldown_sec

(***************************************************************************)
(* Spec: _pipeline_loop with its debouncer, cache, throttler and breaker,  *)
(* the producer publishing frames, the executor running the correction     *)
(* calls, and the clock.  One cycle of the loop is two steps: the drain of *)
(* the outstanding call at the top, then frame, recognition, vote and gate *)
(* (recognition blocks in between, so time passes and calls finish there). *)
(***************************************************************************)
\* What recognition returns for a frame: a text, or a failure (error result,
\* exception or timeout), which leaves raw_text empty.
PipeTexts == { <<>>, <<"a">>, <<"b">> }
OcrOutcomes ==
    { [ok |-> TRUE, text |-> x, err |-> None] : x \in PipeTexts }
        \cup { [ok |-> FALSE, text |-> <<>>, err |-> "ocr error"] }

\* What a correction call returns: success with a corrected text, failure
\* with the input text, or an exception out of the future.
LlmOutcomes == {"ok", "fail", "raise"}
Upper(ch) == IF ch = "a" THEN "A" ELSE IF ch = "b" THEN "B" ELSE ch
Corrected(text) == [i \in 1..Len(text) |-> Upper(text[i])]

Init ==
    /\ now = 0
    /\ deb = OCRDebouncer(config.OCR_DEBOUNCE_HISTORY_LEN, config.OCR_DEBOUNCE_MIN_VOTES,
                          config.OCR_DEBOUNCE_SIMILARITY_VOTE)
    /\ cache = LLMCache(config.LLM_CACHE_MAX_SIZE, config.LLM_CACHE_TTL_SEC)
    /\ thr = LLMThrottler(config.LLM_MIN_INTERVAL_MS)
    /\ cb = CircuitBreaker(config.LLM_CIRCUIT_BREAKER_FAILURES,
                           config.LLM_CIRCUIT_BREAKER_COOLDOWN_SEC)
    /\ ret = [op |-> "start"]
    /\ hist = IdleHist
    /\ st = SharedState
    /\ pl = PipelineLocals
    /\ futures = {}
    /\ calls = 0
    /\ pc = "drain"

PipeTick == pc \in {"drain", "frame"} /\ TickTo(MaxTime)

\* main loop: state.set_frame(frame)
SetFrame ==
    /\ st.frame_count < MaxFrames
    /\ st' = set_frame(st, st.frame_count + 1)
    /\ UNCHANGED <<now, deb, cache, thr, cb, ret, hist, pl, futures, calls, pc>>

\* executor: a running _run_llm_safe call ends
LLMFinish ==
    /\ \E f \in futures, out \in LlmOutcomes :
         /\ f.state = "running"
         /\ futures' = (futures \ {f}) \cup {[f EXCEPT !.state = "done", !.out = out]}
    /\ UNCHANGED <<now, deb, cache, thr, cb, ret, hist, st, pl, calls, pc>>

PendingFuture == {f \in futures : pl.pending_llm # <<>> /\ f.id = pl.pending_llm[1].fut}

\* Mutant of DrainIdle: the top of a cycle waits for the outstanding call.
Mut_DrainIdle_waits ==
    /\ pc = "drain"
    /\ PendingFuture = {}
    /\ pc' = "frame"
    /\ UNCHANGED <<now, deb, cache, thr, cb, ret, hist, st, pl, futures, calls>>

\* top of a cycle, nothing to merge: no outstanding call, or future_llm.done() is false
DrainIdle ==
    /\ pc = "drain"
    /\ \A f \in PendingFuture : f.state # "done"
    /\ pc' = "frame"
    /\ UNCHANGED <<now, deb, cache, thr, cb, ret, hist, st, pl, futures, calls>>

\* Mutant of Merge: a failed call stays the outstanding one.
Mut_Merge_keeps_failed(f) ==
    LET pending == pl.pending_llm[1]
        llm_ok == f.out = "ok"
        corrected == IF f.out = "ok" THEN Corrected(f.text)
                     ELSE IF f.out = "fail" THEN f.text
                     ELSE pending.stable
        llm_err == IF f.out = "ok" THEN None
                   ELSE IF f.out = "fail" THEN "llm error" ELSE "exception"
    IN  /\ cb' = IF llm_ok THEN record_success(cb) ELSE record_failure(cb, now)
        /\ cache' = IF llm_ok /\ pending.stable # <<>>
                    THEN CachePut(cache, pending.stable, last_llm_lang_hint,
                                  corrected, now)
                    ELSE cache
        /\ pl' = IF llm_ok
                 THEN [ pending_llm |-> <<>>, last_sent_text |-> pending.stable,
                        last_corrected |-> corrected ]
                 ELSE pl
        /\ st' = set_latest_result(st, pending.display_raw, corrected, TRUE, llm_ok,
                                   IF pending.err # None THEN pending.err ELSE llm_err,
                                   pending.stable)
        /\ futures' = IF llm_ok THEN futures \ {f} ELSE futures
        /\ ret' = [op |-> "merge", llm_ok |-> llm_ok, stable |-> pending.stable]
        /\ UNCHANGED <<now, deb, thr, hist, calls>>

\* Mutant of Merge: the result is cached under the stable text of the moment.
Mut_Merge_caches_current_text(f) ==
    LET pending == pl.pending_llm[1]
        llm_ok == f.out = "ok"
        corrected == IF f.out = "ok" THEN Corrected(f.text)
                     ELSE IF f.out = "fail" THEN f.text
                     ELSE pending.stable
        llm_err == IF f.out = "ok" THEN None
                   ELSE IF f.out = "fail" THEN "llm error" ELSE "exception"
    IN  /\ cb' = IF llm_ok THEN record_success(cb) ELSE record_failure(cb, now)
        /\ cache' = IF llm_ok /\ pending.stable # <<>>
                    THEN CachePut(cache, get_stable(deb), last_llm_lang_hint,
                                  corrected, now)
                    ELSE cache
        /\ pl' = IF llm_ok
                 THEN [ pending_llm |-> <<>>, last_sent_text |-> pending.stable,
                        last_corrected |-> corrected ]
                 ELSE [pl EXCEPT !.pending_llm = <<>>]
        /\ st' = set_latest_result(st, pending.display_raw, corrected, TRUE, llm_ok,
                                   IF pending.err # None THEN pending.err ELSE llm_err,
                                   pending.stable)
        /\ futures' = futures \ {f}
        /\ ret' = [op |-> "merge", llm_ok |-> llm_ok, stable |-> pending.stable]
        /\ UNCHANGED <<now, deb, thr, hist, calls>>

\* the body of `if future_llm.done():` for the finished call f: result() in
\* its try/except, breaker, cache, publish, pending_llm = None
Merge(f) ==
    LET pending == pl.pending_llm[1]
        llm_ok == f.out = "ok"
        corrected == IF f.out = "ok" THEN Corrected(f.text)
                     ELSE IF f.out = "fail" THEN f.text
                     ELSE pending.stable
        llm_err == IF f.out = "ok" THEN None
                   ELSE IF f.out = "fail" THEN "llm error" ELSE "exception"
    IN  /\ cb' = IF llm_ok THEN record_success(cb) ELSE record_failure(cb, now)
        /\ cache' = IF llm_ok /\ pending.stable # <<>>
                    THEN CachePut(cache, pending.stable, last_llm_lang_hint,
                                  corrected, now)
                    ELSE cache
        /\ pl' = IF llm_ok
                 THEN [ pending_llm |-> <<>>, last_sent_text |-> pending.stable,
                        last_corrected |-> corrected ]
                 ELSE [pl EXCEPT !.pending_llm = <<>>]
        /\ st' = set_latest_result(st, pending.display_raw, corrected, TRUE, llm_ok,
                                   IF pending.err # None THEN pending.err ELSE llm_err,
                                   pending.stable)
        /\ futures' = futures \ {f}
        /\ ret' = [op |-> "merge", llm_ok |-> llm_ok, stable |-> pending.stable]
        /\ UNCHANGED <<now, deb, thr, hist, calls>>

\* Mutant of DrainMerge: result() is called outside any try, so an exception
\* of the correction future leaves the loop.
Mut_DrainMerge_unguarded ==
    /\ pc = "drain"
    /\ \E f \in PendingFuture :
         /\ f.state = "done"
         /\ IF f.out = "raise"
            THEN /\ pc' = "exit"
                 /\ UNCHANGED <<now, deb, cache, thr, cb, ret, hist, st, pl, futures, calls>>
            ELSE Merge(f) /\ pc' = "frame"

\* top of a cycle, future_llm.done(): merge the result and publish it
DrainMerge ==
    /\ pc = "drain"
    /\ \E f \in PendingFuture : f.state = "done" /\ Merge(f)
    /\ pc' = "frame"

\* state.set_latest_result(...) of the branch b of a cycle, on SharedState s
publish(s, b, ocr, stable_text, display_raw, entry) ==
    CASE b = "ocr_fail" ->
            set_latest_result(s, display_raw, TextOr(stable_text, OCR_FAILED), FALSE, TRUE,
                              ocr.err, stable_text)
      [] b = "preview" ->
            set_latest_result(s, display_raw, ocr.text, TRUE, TRUE, None, stable_text)
      [] b = "cache_hit" ->
            set_latest_result(s, display_raw, entry[1].corrected, TRUE, TRUE, ocr.err,
                              stable_text)
      [] b = "dedup" ->
            set_latest_result(s, display_raw, pl.last_corrected, TRUE, TRUE, None, stable_text)
      [] b = "breaker_open" ->
            set_latest_result(s, display_raw, stable_text, TRUE, FALSE, BREAKER_OPEN_MSG,
                              stable_text)
      [] b \in {"throttled", "busy"} ->
            set_latest_result(s, display_raw, stable_text, TRUE, TRUE, None, stable_text)
      [] b = "dispatch" ->
            set_latest_result(s, display_raw, stable_text, TRUE, TRUE, ocr.err, stable_text)

\* Mutant of submit: the call is submitted but not kept in pending_llm.
Mut_submit_not_recorded(b, ocr, stable_text, display_raw) ==
    IF b = "dispatch"
    THEN /\ calls < MaxCalls
         /\ calls' = calls + 1
         /\ futures' = futures \cup
               {[id |-> calls + 1, text |-> stable_text, state |-> "running", out |-> None]}
         /\ pl' = [pl EXCEPT !.last_sent_text = stable_text]
         /\ hist' = <<now>>
    ELSE UNCHANGED <<pl, futures, calls, hist>>

\* executor.submit(_run_llm_safe, stable_text) on the last branch, nothing on the others
\* (hist records the time of the last submission)
submit(b, ocr, stable_text, display_raw) ==
    IF b = "dispatch"
    THEN /\ calls < MaxCalls
         /\ calls' = calls + 1
         /\ futures' = futures \cup
               {[id |-> calls + 1, text |-> stable_text, state |-> "running", out |-> None]}
         /\ pl' = [pl EXCEPT
                     !.last_sent_text = stable_text,
                     !.pending_llm = <<[ fut |-> calls + 1, stable |-> stable_text,
                                         display_raw |-> display_raw, err |-> ocr.err ]>>]
         /\ hist' = <<now>>
    ELSE UNCHANGED <<pl, futures, calls, hist>>

\* a cycle from the vote on: d1 is the debouncer after add(), g the branch
\* taken with the cache and the throttler it leaves
branch(s, ocr, d1, stable_text, display_raw, g) ==
    /\ deb' = d1
    /\ ret' = [op |-> "process", branch |-> g.branch, stable |-> stable_text,
               raw |-> ocr.text, ocr_ok |-> ocr.ok]
    /\ cache' = g.cache
    /\ thr' = g.thr
    /\ st' = publish(s, g.branch, ocr, stable_text, display_raw, g.entry)
    /\ submit(g.branch, ocr, stable_text, display_raw)
    /\ UNCHANGED <<now, cb>>

\* debouncer.get_stable() and the tests of the cycle on it
vote(s, ocr, d1, stable_text) ==
    branch(s, ocr, d1, stable_text,
           IF ocr.ok THEN ocr.text ELSE TextOr(stable_text, OCR_FAILED),
           IF early_branch(d1, ocr.text, ocr.ok) = "gate"
           THEN gate(pl, cache, thr, cb, stable_text, now)
           ELSE [ branch |-> early_branch(d1, ocr.text, ocr.ok),
                  cache |-> cache, thr |-> thr, entry |-> <<>> ])

\* debouncer.add(raw_text if ocr_ok else "")
recognized(s, ocr, d1) == vote(s, ocr, d1, get_stable(d1))

\* the rest of a cycle: get_frame_for_ocr, recognition, vote, then the branch
\* the tests select, up to its `continue` (ret.branch names the branch)
Process ==
    /\ pc = "frame"
    /\ pc' = "drain"
    /\ \/ /\ ret' = [op |-> "process", branch |-> "frame_error"]
          /\ UNCHANGED <<now, deb, cache, thr, cb, hist, st, pl, futures, calls>>
       \/ IF get_frame_for_ocr(st, config.FRAME_SKIP).frame = NoFrame
          THEN /\ ret' = [op |-> "process", branch |-> "no_frame"]
               /\ UNCHANGED <<now, deb, cache, thr, cb, hist, st, pl, futures, calls>>
          ELSE \E ocr \in OcrOutcomes :
                 recognized(get_frame_for_ocr(st, config.FRAME_SKIP).st, ocr,
                            add(deb, IF ocr.ok THEN ocr.text ELSE <<>>))

Next ==
    \/ PipeTick \/ SetFrame \/ LLMFinish
    \/ DrainIdle \/ DrainMerge
    \/ Process

Spec == Init /\ [][Next]_vars

\* C1: at most one correction call is outstanding at any time, and it is the
\* one pending_llm holds: a cycle submits a call only while pending_llm is
\* None, whatever stable text it carries.
C1_AtMostOneOutstandingCall ==
    /\ Cardinality(futures) <= 1
    /\ \A f \in futures : pl.pending_llm # <<>> /\ pl.pending_llm[1].fut = f.id
    /\ (ret.op = "process" /\ ret.branch = "busy") => calls >= 1 /\ pl.pending_llm # <<>>

\* A cycle with a different stable text passed cache, breaker and throttle
\* while the first call was still running, and submitted nothing.
C1_Witness ==
    /\ ret.op = "process" /\ ret.branch = "busy"
    /\ pl.pending_llm # <<>>
    /\ ret.stable # pl.pending_llm[1].stable
    /\ calls = 1
    /\ \E f \in futures : f.state = "running" /\ f.text = pl.pending_llm[1].stable

\* The branches of a cycle from the breaker test on (after cache and same-text tests).
GateBranches == {"breaker_open", "throttled", "busy", "dispatch"}

\* C2: a cycle that gets as far as the breaker test while is_open() is true
\* submits no call and publishes the stable text as corrected, with llm_ok
\* false and the breaker-open error message.
C2_OpenBreakerPassesThrough ==
    [][ ( /\ pc = "frame" /\ pc' = "drain"
          /\ ret'.op = "process" /\ ret'.branch \in GateBranches
          /\ is_open(cb, now) )
        => /\ calls' = calls /\ futures' = futures /\ pl' = pl
           /\ st'.latest_result.corrected = ret'.stable
           /\ st'.latest_result.debounced_ocr = ret'.stable
           /\ st'.latest_result.ocr_ok
           /\ ~st'.latest_result.llm_ok
           /\ st'.latest_result.error_msg = BREAKER_OPEN_MSG ]_vars

\* After LLM_CIRCUIT_BREAKER_FAILURES failed calls, a cycle the throttle and
\* the absence of an outstanding call would have let through is stopped by
\* the open breaker.
C2_Witness ==
    /\ ret.op = "process" /\ ret.branch = "breaker_open"
    /\ is_open(cb, now)
    /\ cb.consecutive_failures = config.LLM_CIRCUIT_BREAKER_FAILURES
    /\ calls = config.LLM_CIRCUIT_BREAKER_FAILURES
    /\ pl.pending_llm = <<>> /\ futures = {}
    /\ can_call(thr, now).ok
    /\ st.latest_result.error_msg = BREAKER_OPEN_MSG
    /\ st.latest_result.corrected = ret.stable

\* The unexpired entries the cache c holds for a text at time t.
FreshEntries(c, text, t) ==
    { e \in {c.data[i] : i \in 1..Len(c.data)} :
        e.key = make_key(text, last_llm_lang_hint) /\ t - e.ts <= c.ttl }

\* The branches of a cycle that has a non-empty (soft-)stable text.
StableBranches == GateBranches \cup {"cache_hit", "dedup"}

\* C11: a cycle whose stable text has an unexpired cache entry publishes the
\* cached correction with llm_ok true and submits no call; and after the
\* last text sent was corrected, a cycle on that same text submits no call.
C11_CacheHitSubmitsNothing ==
    [][ ( /\ pc = "frame" /\ pc' = "drain"
          /\ ret'.op = "process" /\ ret'.branch \in StableBranches )
        => /\ \A e \in FreshEntries(cache, ret'.stable, now) :
                /\ calls' = calls /\ futures' = futures /\ pl' = pl
                /\ st'.latest_result.corrected = e.corrected
                /\ st'.latest_result.llm_ok /\ st'.latest_result.ocr_ok
                /\ st'.latest_result.debounced_ocr = ret'.stable
           /\ ( /\ pl.last_sent_text = ret'.stable /\ pl.last_corrected # NoneText
                /\ pl.pending_llm = <<>> )
              => calls' = calls /\ futures' = futures ]_vars

\* A text corrected earlier comes back after another text was sent: the
\* cache, not the same-text test, answers it while the throttle would allow a call.
C11_Witness ==
    /\ ret.op = "process" /\ ret.branch = "cache_hit"
    /\ pl.last_sent_text # ret.stable
    /\ calls = 2
    /\ st.latest_result.corrected = Corrected(ret.stable)
    /\ st.latest_result.llm_ok
    /\ can_call(thr, now).ok
    /\ ~is_open(cb, now)


(***************************************************************************)
(* SpecSlots: the two side-channel slots of SharedState under any order of *)
(* calls of their writers (main loop, chat window) and of their reader     *)
(* (the top of a pipeline cycle).  Every method body runs under the lock,  *)
(* so a call is one step.  Per slot, hist records from the arguments:      *)
(*   unread  : the arguments of the last write, if no read came after it   *)
(*   replaced: the arguments of an unread write that this write replaced   *)
(*   served  : the last delivery (its write and what that write replaced), *)
(*             if no write came after it                                   *)
(***************************************************************************)
ChatMessages == { <<SP>>, <<"a">>, <<"b", SP>> }
Commands == {"read", "translate"}
CommandContents == { <<>>, <<"a">>, <<SP, "b">> }

EmptySlot == [unread |-> <<>>, replaced |-> <<>>, served |-> <<>>]
SlotWritten(h, w) == [unread |-> <<w>>, replaced |-> h.unread, served |-> <<>>]
SlotRead(h) ==
    [ unread |-> <<>>, replaced |-> <<>>,
      served |-> IF h.unread = <<>> THEN h.served
                 ELSE <<[write |-> h.unread[1], replaced |-> h.replaced]>> ]

InitSlots ==
    /\ now = 0
    /\ deb = IdleDeb /\ cache = IdleCache /\ thr = IdleThr /\ cb = IdleCb
    /\ ret = IdleRet
    /\ hist = [chat |-> EmptySlot, cmd |-> EmptySlot]
    /\ IdlePipe

\* chat window: state.set_pending_chat(msg)
SetPendingChat ==
    /\ \E m \in ChatMessages :
         /\ st' = set_pending_chat(st, m)
         /\ hist' = [hist EXCEPT !.chat = SlotWritten(@, m)]
         /\ ret' = [op |-> "set_pending_chat"]
    /\ UNCHANGED <<now, deb, cache, thr, cb, pl, futures, calls, pc>>

\* pipeline cycle: state.get_and_clear_pending_chat()
GetAndClearPendingChat ==
    /\ st' = get_and_clear_pending_chat(st).st
    /\ hist' = [hist EXCEPT !.chat = SlotRead(@)]
    /\ ret' = [ op |-> "get_and_clear_pending_chat",
                msg |-> get_and_clear_pending_chat(st).msg,
                before |-> hist.chat ]
    /\ UNCHANGED <<now, deb, cache, thr, cb, pl, futures, calls, pc>>

\* main loop, chat assistant: state.set_pending_user_command(cmd, content)
SetPendingUserCommand ==
    /\ \E c \in Commands, x \in CommandContents :
         /\ st' = set_pending_user_command(st, c, x)
         /\ hist' = [hist EXCEPT !.cmd = SlotWritten(@, [cmd |-> c, content |-> x])]
         /\ ret' = [op |-> "set_pending_user_command"]
    /\ UNCHANGED <<now, deb, cache, thr, cb, pl, futures, calls, pc>>

\* pipeline cycle: state.get_and_clear_pending_command()
GetAndClearPendingCommand ==
    /\ st' = get_and_clear_pending_command(st).st
    /\ hist' = [hist EXCEPT !.cmd = SlotRead(@)]
    /\ ret' = [ op |-> "get_and_clear_pending_command",
                cmd |-> get_and_clear_pending_command(st).cmd,
                content |-> get_and_clear_pending_command(st).content,
                before |-> hist.cmd ]
    /\ UNCHANGED <<now, deb, cache, thr, cb, pl, futures, calls, pc>>

NextSlots ==
    \/ SetPendingChat \/ GetAndClearPendingChat
    \/ SetPendingUserCommand \/ GetAndClearPendingCommand

SpecSlots == InitSlots /\ [][NextSlots]_vars

\* C12: a read returns the value of the last write when no read came after
\* that write (a chat message stripped, a blank one as nothing; a command
\* with its content stripped), and nothing otherwise: a write is delivered
\* to at most one read, and a write replaced before any read is never delivered.
C12_SlotsDeliverLastWriteOnce ==
    /\ ret.op = "get_and_clear_pending_chat" =>
          ret.msg = IF ret.before.unread = <<>> \/ strip(ret.before.unread[1]) = <<>>
                    THEN <<>> ELSE <<strip(ret.before.unread[1])>>
    /\ ret.op = "get_and_clear_pending_command" =>
          IF ret.before.unread = <<>>
          THEN ret.cmd = <<>> /\ ret.content = <<>>
          ELSE /\ ret.cmd = <<ret.before.unread[1].cmd>>
               /\ ret.content = strip(ret.before.unread[1].content)
    /\ ret.op \in {"get_and_clear_pending_chat", "get_and_clear_pending_command"} =>
          st.pending_chat_message = <<>> \/ hist.chat.unread # <<>>

\* Two different messages were written with no read in between, a read
\* delivered the later one, and the next read, with no new write, got nothing.
C12_Witness ==
    /\ ret.op = "get_and_clear_pending_chat"
    /\ ret.msg = <<>>
    /\ ret.before.unread = <<>>
    /\ ret.before.served # <<>>
    /\ ret.before.served[1].replaced # <<>>
    /\ strip(ret.before.served[1].replaced[1]) # <<>>
    /\ strip(ret.before.served[1].write) # <<>>
    /\ ret.before.served[1].replaced[1] # ret.before.served[1].write


(***************************************************************************)
(* SpecShared: the frame slot and the result slot of SharedState under any *)
(* order of calls of the producer (set_frame), the pipeline                *)
(* (get_frame_for_ocr, set_latest_result, set_vision_and_cross_validated)  *)
(* and the readers (get_latest_result, get_pending_frames_count).  Every   *)
(* method body runs under the lock, so a call is one step.  Frames are     *)
(* numbered by the order of their set_frame calls.  hist records:          *)
(*   frames   : the number of set_frame calls                              *)
(*   taken    : whether a get_frame_for_ocr call has returned a frame      *)
(*   since    : the set_frame calls since that take (since the start)      *)
(*   publishes: the results given to set_latest_result so far              *)
(***************************************************************************)
Skips == {0, 1, 2, 3}
PublishSamples ==
    { DisplayResult(<<"a">>, <<"a">>, <<"A">>, TRUE, TRUE, None),
      DisplayResult(<<"b">>, <<"b">>, <<"b">>, TRUE, FALSE, "llm error"),
      DisplayResult(OCR_FAILED, <<>>, OCR_FAILED, FALSE, TRUE, "ocr error") }
VisionSamples == { <<(<<"v">>), (<<"c">>)>>, <<(<<SP, "w">>), (<<>>)>> }

InitShared ==
    /\ now = 0
    /\ deb = IdleDeb /\ cache = IdleCache /\ thr = IdleThr /\ cb = IdleCb
    /\ ret = IdleRet
    /\ hist = [frames |-> 0, taken |-> FALSE, since |-> 0, publishes |-> {}]
    /\ IdlePipe

\* producer: state.set_frame(frame)
ShSetFrame ==
    /\ hist.frames < MaxSharedFrames
    /\ st' = set_frame(st, hist.frames + 1)
    /\ hist' = [hist EXCEPT !.frames = @ + 1, !.since = @ + 1]
    /\ ret' = [op |-> "set_frame", frame |-> hist.frames + 1, count_before |-> st.frame_count]
    /\ UNCHANGED <<now, deb, cache, thr, cb, pl, futures, calls, pc>>

\* pipeline: state.get_frame_for_ocr(skip)
ShGetFrameForOcr ==
    /\ \E skip \in Skips :
         /\ st' = get_frame_for_ocr(st, skip).st
         /\ ret' = [ op |-> "get_frame_for_ocr", skip |-> skip,
                     frame |-> get_frame_for_ocr(st, skip).frame,
                     taken |-> hist.taken, since |-> hist.since,
                     pending |-> get_pending_frames_count(get_frame_for_ocr(st, skip).st) ]
         /\ hist' = IF get_frame_for_ocr(st, skip).frame = NoFrame THEN hist
                    ELSE [hist EXCEPT !.taken = TRUE, !.since = 0]
    /\ UNCHANGED <<now, deb, cache, thr, cb, pl, futures, calls, pc>>

\* main loop: state.get_pending_frames_count()
ShGetPendingFramesCount ==
    /\ ret' = [op |-> "get_pending_frames_count", val |-> get_pending_frames_count(st)]
    /\ UNCHANGED <<now, deb, cache, thr, cb, hist, st, pl, futures, calls, pc>>

\* pipeline: state.set_latest_result(...)
ShSetLatestResult ==
    /\ \E r \in PublishSamples :
         /\ st' = set_latest_result(st, r.raw_ocr, r.corrected, r.ocr_ok, r.llm_ok,
                                    r.error_msg, r.debounced_ocr)
         /\ hist' = [hist EXCEPT !.publishes = @ \cup {r}]
         /\ ret' = [op |-> "set_latest_result"]
    /\ UNCHANGED <<now, deb, cache, thr, cb, pl, futures, calls, pc>>

\* pipeline: state.set_vision_and_cross_validated(vision_text, cross)
ShSetVisionAndCrossValidated ==
    /\ \E v \in VisionSamples :
         /\ st' = set_vision_and_cross_validated(st, v[1], v[2])
         /\ ret' = [op |-> "set_vision_and_cross_validated"]
    /\ UNCHANGED <<now, deb, cache, thr, cb, hist, pl, futures, calls, pc>>

\* main loop, chat window: state.get_latest_result()
ShGetLatestResult ==
    /\ ret' = [op |-> "get_latest_result", val |-> get_latest_result(st)]
    /\ UNCHANGED <<now, deb, cache, thr, cb, hist, st, pl, futures, calls, pc>>

NextShared ==
    \/ ShSetFrame \/ ShGetFrameForOcr \/ ShGetPendingFramesCount
    \/ ShSetLatestResult \/ ShSetVisionAndCrossValidated \/ ShGetLatestResult

SpecShared == InitShared /\ [][NextShared]_vars


\* What a reader gets when every field comes from the one publish r: its
\* nine fields, and the vision fields as set_latest_result builds them (empty).
SnapshotOf(r) ==
    [ raw_ocr |-> r.raw_ocr, debounced_ocr |-> r.debounced_ocr, corrected |-> r.corrected,
      ocr_ok |-> r.ocr_ok, llm_ok |-> r.llm_ok, error_msg |-> r.error_msg,
      vision_llm_text |-> <<>>, cross_validated_text |-> <<>> ]

\* C13 as stated: every get_latest_result() returns the fields of one single
\* publish (or of the initial result), never a publish mixed with another update.
C13_SnapshotIsOnePublish ==
    ret.op = "get_latest_result" =>
        \E r \in hist.publishes \cup {SharedState.latest_result} : ret.val = SnapshotOf(r)

\* C14 as stated: get_frame_for_ocr(skip) returns None when fewer than skip
\* frames were set since the last take, otherwise takes the frame and leaves
\* no pending frame; a take is at least skip frames after the one before, and
\* a take repeated with no new frame returns None, whatever skip is.
C14_SkipSamplingAnySkip ==
    ret.op = "get_frame_for_ocr" =>
        /\ (ret.taken /\ ret.since < ret.skip) => ret.frame = NoFrame
        /\ (hist.frames > 0 /\ ~(ret.taken /\ ret.since < ret.skip)) =>
              ret.frame # NoFrame /\ ret.pending = 0
        /\ (ret.taken /\ ret.frame # NoFrame) => ret.since >= ret.skip
        /\ (ret.taken /\ ret.since = 0) => ret.frame = NoFrame

\* C14 amended: as above, but a take repeated with no new frame returns None
\* only for skip >= 1; with skip <= 0 it returns the same frame again.
C14_SkipSampling ==
    ret.op = "get_frame_for_ocr" =>
        /\ (ret.taken /\ ret.since < ret.skip) => ret.frame = NoFrame
        /\ (hist.frames > 0 /\ ~(ret.taken /\ ret.since < ret.skip)) =>
              ret.frame # NoFrame /\ ret.pending = 0
        /\ (ret.taken /\ ret.frame # NoFrame) => ret.since >= ret.skip
        /\ (ret.taken /\ ret.since = 0 /\ ret.skip >= 1) => ret.frame = NoFrame
        /\ (ret.taken /\ ret.since = 0 /\ ret.skip <= 0) =>
              ret.frame = st.current_frame /\ ret.frame # NoFrame

\* A take exactly skip frames (two or more) after the take before it.
C14_Witness ==
    /\ ret.op = "get_frame_for_ocr"
    /\ ret.taken /\ ret.skip >= 2 /\ ret.since = ret.skip
    /\ ret.frame # NoFrame /\ ret.pending = 0
    /\ get_pending_frames_count(st) = 0

\* C15: set_frame overwrites the slot and adds exactly 1 to the frame count;
\* a successful get_frame_for_ocr returns the frame of the latest set_frame,
\* so a frame replaced before it was taken is never returned.
C15_LatestFrameWins ==
    /\ ret.op = "set_frame" =>
          st.frame_count = ret.count_before + 1 /\ st.current_frame = <<ret.frame>>
    /\ st.frame_count = hist.frames
    /\ (ret.op = "get_frame_for_ocr" /\ ret.frame # NoFrame) => ret.frame = <<hist.frames>>

\* A take after two frames were set since the take before: the older of the
\* two is dropped.
C15_Witness ==
    /\ ret.op = "get_frame_for_ocr"
    /\ ret.taken /\ ret.since >= 2
    /\ ret.frame = <<hist.frames>>


(***************************************************************************)
(* SpecLock: the threads that meet at the SharedState lock.  The main loop *)
(* calls set_frame and get_latest_result; the pipeline calls               *)
(* get_frame_for_ocr and set_last_ocr_frame, hands recognition to the      *)
(* executor and waits for it with a timeout, calls set_latest_result and   *)
(* may hand a correction call to the executor.  A method call is two       *)
(* steps: entering `with self._lock` and the body with the exit.  The      *)
(* executor's calls (run_ocr, correct_with_llm) end or hang: no fairness   *)
(* is assumed of them.  pc holds each thread's position.                   *)
(*   hist.frames: the set_frame calls started                              *)
(*   hist.hung  : recognition and correction were both executing when the  *)
(*                main loop last entered the lock                          *)
(***************************************************************************)
MainLockedCalls == {"set_frame", "get_latest_result"}
PipeLockedCalls == {"get_frame_for_ocr", "set_last_ocr_frame", "set_latest_result"}

InitLock ==
    /\ now = 0
    /\ deb = IdleDeb /\ cache = IdleCache /\ thr = IdleThr /\ cb = IdleCb
    /\ ret = IdleRet
    /\ hist = [frames |-> 0, hung |-> FALSE]
    /\ st = SharedState /\ pl = PipelineLocals /\ futures = {} /\ calls = 0
    /\ pc = [ main     |-> [at |-> "idle", locked |-> FALSE],
              pipeline |-> [at |-> "get_frame_for_ocr", locked |-> FALSE, frame |-> NoFrame],
              ocr      |-> "idle",
              llm      |-> "idle" ]

Executing == pc.ocr = "run_ocr" /\ pc.llm = "correct_with_llm"

\* main loop: a frame was read from the camera
MainStart ==
    /\ pc.main.at = "idle"
    /\ hist.frames < MaxLockFrames
    /\ pc' = [pc EXCEPT !.main.at = "set_frame"]
    /\ hist' = [hist EXCEPT !.frames = @ + 1]
    /\ UNCHANGED <<now, deb, cache, thr, cb, ret, st, pl, futures, calls>>

\* main loop: `with self._lock` of set_frame or get_latest_result
MainAcquire ==
    /\ pc.main.at \in MainLockedCalls /\ ~pc.main.locked
    /\ lock_free(st)
    /\ st' = lock_acquire(st, "main")
    /\ pc' = [pc EXCEPT !.main.locked = TRUE]
    /\ hist' = [hist EXCEPT !.hung = Executing]
    /\ UNCHANGED <<now, deb, cache, thr, cb, ret, pl, futures, calls>>

\* main loop: the body of set_frame
MainSetFrame ==
    /\ pc.main.at = "set_frame" /\ pc.main.locked
    /\ st' = lock_release(set_frame(st, hist.frames), "set_frame")
    /\ pc' = [pc EXCEPT !.main = [at |-> "get_latest_result", locked |-> FALSE]]
    /\ ret' = [op |-> "set_frame"]
    /\ UNCHANGED <<now, deb, cache, thr, cb, hist, pl, futures, calls>>

\* main loop: the body of get_latest_result
MainGetLatestResult ==
    /\ pc.main.at = "get_latest_result" /\ pc.main.locked
    /\ st' = lock_release(st, "get_latest_result")
    /\ pc' = [pc EXCEPT !.main = [at |-> "idle", locked |-> FALSE]]
    /\ ret' = [ op |-> "get_latest_result", val |-> get_latest_result(st),
                hung |-> hist.hung /\ Executing ]
    /\ UNCHANGED <<now, deb, cache, thr, cb, hist, pl, futures, calls>>

\* pipeline: `with self._lock` of one of its SharedState calls
PipeAcquire ==
    /\ pc.pipeline.at \in PipeLockedCalls /\ ~pc.pipeline.locked
    /\ lock_free(st)
    /\ st' = lock_acquire(st, "pipeline")
    /\ pc' = [pc EXCEPT !.pipeline.locked = TRUE]
    /\ UNCHANGED <<now, deb, cache, thr, cb, ret, hist, pl, futures, calls>>

\* pipeline: the body of get_frame_for_ocr; without a frame the cycle restarts
PipeGetFrameForOcr ==
    /\ pc.pipeline.at = "get_frame_for_ocr" /\ pc.pipeline.locked
    /\ st' = lock_release(get_frame_for_ocr(st, config.FRAME_SKIP).st, "get_frame_for_ocr")
    /\ pc' = [pc EXCEPT !.pipeline =
                [ at |-> IF get_frame_for_ocr(st, config.FRAME_SKIP).frame = NoFrame
                         THEN "get_frame_for_ocr" ELSE "set_last_ocr_frame",
                  locked |-> FALSE,
                  frame |-> get_frame_for_ocr(st, config.FRAME_SKIP).frame ]]
    /\ UNCHANGED <<now, deb, cache, thr, cb, ret, hist, pl, futures, calls>>

\* pipeline: the body of set_last_ocr_frame
PipeSetLastOcrFrame ==
    /\ pc.pipeline.at = "set_last_ocr_frame" /\ pc.pipeline.locked
    /\ st' = lock_release(set_last_ocr_frame(st, pc.pipeline.frame), "set_last_ocr_frame")
    /\ pc' = [pc EXCEPT !.pipeline.at = "submit_ocr", !.pipeline.locked = FALSE]
    /\ UNCHANGED <<now, deb, cache, thr, cb, ret, hist, pl, futures, calls>>

\* pipeline: executor.submit(_run_ocr_safe, frame); behind a call that still
\* hangs the new one does not start
PipeSubmitOcr ==
    /\ pc.pipeline.at = "submit_ocr"
    /\ pc' = [pc EXCEPT !.pipeline.at = "wait_ocr", !.ocr = "run_ocr"]
    /\ UNCHANGED <<now, deb, cache, thr, cb, ret, hist, st, pl, futures, calls>>

\* executor: run_ocr returns or raises
OcrFinish ==
    /\ pc.ocr = "run_ocr"
    /\ pc' = [pc EXCEPT !.ocr = "done"]
    /\ UNCHANGED <<now, deb, cache, thr, cb, ret, hist, st, pl, futures, calls>>

\* pipeline: future_ocr.result(timeout=...) returns the result
PipeOcrResult ==
    /\ pc.pipeline.at = "wait_ocr" /\ pc.ocr = "done"
    /\ pc' = [pc EXCEPT !.pipeline.at = "set_latest_result", !.ocr = "idle"]
    /\ UNCHANGED <<now, deb, cache, thr, cb, ret, hist, st, pl, futures, calls>>

\* pipeline: future_ocr.result(timeout=...) times out, the call goes on
PipeOcrTimeout ==
    /\ pc.pipeline.at = "wait_ocr" /\ pc.ocr = "run_ocr"
    /\ pc' = [pc EXCEPT !.pipeline.at = "set_latest_result"]
    /\ UNCHANGED <<now, deb, cache, thr, cb, ret, hist, st, pl, futures, calls>>

\* pipeline: the body of set_latest_result
PipeSetLatestResult ==
    /\ pc.pipeline.at = "set_latest_result" /\ pc.pipeline.locked
    /\ \E r \in PublishSamples :
         st' = lock_release(set_latest_result(st, r.raw_ocr, r.corrected, r.ocr_ok, r.llm_ok,
                                              r.error_msg, r.debounced_ocr),
                            "set_latest_result")
    /\ pc' = [pc EXCEPT !.pipeline.at = "submit_llm", !.pipeline.locked = FALSE]
    /\ UNCHANGED <<now, deb, cache, thr, cb, ret, hist, pl, futures, calls>>

\* pipeline: the end of the cycle, with executor.submit(_run_llm_safe, ...)
\* when the gate lets a call through and none is outstanding
PipeSubmitLlm ==
    /\ pc.pipeline.at = "submit_llm"
    /\ \E submit_it \in BOOLEAN :
         pc' = [pc EXCEPT !.pipeline.at = "get_frame_for_ocr",
                          !.llm = IF submit_it /\ pc.llm = "idle"
                                  THEN "correct_with_llm" ELSE @]
    /\ UNCHANGED <<now, deb, cache, thr, cb, ret, hist, st, pl, futures, calls>>

\* executor: correct_with_llm returns or raises, and the pipeline merges it
LlmFinish ==
    /\ pc.llm = "correct_with_llm"
    /\ pc' = [pc EXCEPT !.llm = "idle"]
    /\ UNCHANGED <<now, deb, cache, thr, cb, ret, hist, st, pl, futures, calls>>

NextLock ==
    \/ MainStart \/ MainAcquire \/ MainSetFrame \/ MainGetLatestResult
    \/ PipeAcquire \/ PipeGetFrameForOcr \/ PipeSetLastOcrFrame
    \/ PipeSubmitOcr \/ OcrFinish \/ PipeOcrResult \/ PipeOcrTimeout
    \/ PipeSetLatestResult \/ PipeSubmitLlm \/ LlmFinish

\* A thread that asks for the free lock gets it, and a method body, once
\* entered, runs to its end.  Nothing is assumed of run_ocr or
\* correct_with_llm ending, nor of the timeout.
FairLock ==
    /\ WF_vars(MainStart)
    /\ SF_vars(MainAcquire) /\ WF_vars(MainSetFrame) /\ WF_vars(MainGetLatestResult)
    /\ SF_vars(PipeAcquire) /\ WF_vars(PipeGetFrameForOcr)
    /\ WF_vars(PipeSetLastOcrFrame) /\ WF_vars(PipeSetLatestResult)

SpecLock == InitLock /\ [][NextLock]_vars /\ FairLock

\* The lock is free or held by a thread inside a SharedState method body; the
\* executor's threads never hold it, nor does the pipeline between its calls.
LockHeldOnlyInMethodBodies ==
    /\ st.lock \in {None, "main", "pipeline"}
    /\ st.lock = "main" <=> pc.main.locked
    /\ st.lock = "pipeline" <=> pc.pipeline.locked
    /\ pc.main.locked => pc.main.at \in MainLockedCalls
    /\ pc.pipeline.locked => pc.pipeline.at \in PipeLockedCalls

CallRunning == \E f \in futures : f.state = "running"

\* C17: while a correction call is unresolved the top of a cycle goes on
\* without it (done() is false: nothing is merged, nothing is waited for),
\* the rest of the cycle can run, and a cycle that gets a frame publishes a
\* result for that frame and leaves the call as it is.
C17_UnresolvedCallNeverBlocks ==
    /\ [](CallRunning => /\ pc = "drain" => ENABLED DrainIdle
                         /\ pc = "frame" => ENABLED Process)
    /\ [][ ( /\ CallRunning /\ pc = "frame" /\ pc' = "drain"
             /\ ret'.op = "process" /\ ret'.branch \notin {"no_frame", "frame_error"} )
           => /\ futures' = futures /\ pl'.pending_llm = pl.pending_llm
              /\ st'.last_ocr_frame_count = st.frame_count
              /\ st'.latest_result.debounced_ocr = ret'.stable
              /\ st'.latest_result.ocr_ok = (ret'.branch # "ocr_fail")
              /\ st'.latest_result.raw_ocr =
                    IF ret'.branch # "ocr_fail" THEN ret'.raw
                    ELSE TextOr(ret'.stable, OCR_FAILED) ]_vars

\* Two seconds after the call was submitted it is still executing, and a
\* cycle has just published a failed recognition.
C17_Witness ==
    /\ ret.op = "process" /\ ret.branch = "ocr_fail"
    /\ \E f \in PendingFuture : f.state = "running"
    /\ now * 1000 - thr.last_call_ts_ms >= 2000
    /\ ~st.latest_result.ocr_ok
    /\ st.last_ocr_frame_count >= 2


(***************************************************************************)
(* SpecKeys: one LLMCache under put and get calls with every kind of       *)
(* language hint: absent (None), empty, "auto" and "en".                   *)
(*   hist: for each stored key, the text and the hint of the put that      *)
(*         stored its entry.                                               *)
(***************************************************************************)
KeyTexts == { <<"a">>, <<"b">> }
KeyHints == { NoneText, <<>>, AUTO, EN }
KeyCacheSize == 2
KeyCacheTTL == 2

InitKeys ==
    /\ now = 0
    /\ cache = LLMCache(KeyCacheSize, KeyCacheTTL)
    /\ deb = IdleDeb /\ thr = IdleThr /\ cb = IdleCb
    /\ ret = IdleRet
    /\ hist = {}
    /\ IdlePipe

\* cache.put(text, lang_hint, corrected, ...)
KeyPutOp ==
    /\ \E text \in KeyTexts, lang_hint \in KeyHints, v \in CorrectedTexts :
         LET key == make_key(text, lang_hint)
             after == CachePut(cache, text, lang_hint, v, now)
         IN  /\ cache' = after
             /\ ret' = [op |-> "put", text |-> text, lang_hint |-> lang_hint]
             /\ hist' = { p \in { q \in hist : q.key # key }
                                  \cup {[key |-> key, text |-> text, lang_hint |-> lang_hint]} :
                            od_has(after.data, p.key) }
    /\ UNCHANGED <<now, deb, thr, cb, pipeVars>>

\* cache.get(text, lang_hint)
KeyGetOp ==
    /\ \E text \in KeyTexts, lang_hint \in KeyHints :
         LET got == CacheGet(cache, text, lang_hint, now)
         IN  /\ cache' = got.cache
             /\ ret' = [ op |-> "get", text |-> text, lang_hint |-> lang_hint,
                         entry |-> got.entry,
                         stored_by |-> IF got.entry = <<>> THEN {}
                                       ELSE { p \in hist : p.key = got.entry[1].key } ]
             /\ hist' = { p \in hist : od_has(got.cache.data, p.key) }
    /\ UNCHANGED <<now, deb, thr, cb, pipeVars>>

KeyTick == TickTo(MaxKeyTime)

NextKeys == KeyTick \/ KeyPutOp \/ KeyGetOp

SpecKeys == InitKeys /\ [][NextKeys]_vars

\* `lang_hint or 'auto'`: the hint as the key reads it
HintOrAuto(lang_hint) ==
    IF lang_hint = NoneText \/ lang_hint = <<>> THEN AUTO ELSE lang_hint

\* C20 as claimed: for one text, an entry put under one hint (no hint
\* included) is never returned by a get under a different hint.
C20_DistinctHintsNeverCollide ==
    ret.op = "get" =>
        \A p \in ret.stored_by : p.text = ret.text => p.lang_hint = ret.lang_hint

\* C20: for one text, an entry put under one hint is never returned by a
\* get under a hint that differs from it once an absent or empty hint is
\* read as "auto".
C20_HintsSeparateKeys ==
    ret.op = "get" =>
        \A p \in ret.stored_by :
            p.text = ret.text => HintOrAuto(p.lang_hint) = HintOrAuto(ret.lang_hint)

\* A get returns nothing while an unexpired entry of the same text, put
\* under another hint, is stored.
C20_Witness ==
    /\ ret.op = "get" /\ ret.entry = <<>>
    /\ \E p \in hist :
         /\ p.text = ret.text
         /\ HintOrAuto(p.lang_hint) # HintOrAuto(ret.lang_hint)
         /\ \E i \in 1..Len(cache.data) :
              cache.data[i].key = p.key /\ ~expired(cache, cache.data[i], now)


\* C18: with a throttle interval above 0, a correction call is submitted at
\* least the interval after the call submitted before it (hist holds the
\* time of the last submission).
C18_SubmissionsAnIntervalApart ==
    [][ (thr.interval > 0 /\ calls' = calls + 1 /\ hist # <<>>)
          => /\ hist' = <<now'>>
             /\ (now' - hist[1]) * 1000 >= thr.interval ]_vars

\* The second call is submitted exactly one interval after the first (the
\* first cannot be submitted before time 1).
C18_Witness ==
    /\ thr.interval = 1000
    /\ ret.op = "process" /\ ret.branch = "dispatch"
    /\ calls = 2
    /\ hist = <<2>> /\ now = 2


\* The cycle step that can follow the position pc of the loop.
LoopGoesOn ==
    /\ pc \in {"drain", "frame"}
    /\ pc = "drain" => ENABLED (DrainIdle \/ DrainMerge)
    /\ pc = "frame" => ENABLED Process

\* C19: the loop never ends: it is always at the top or in the middle of a
\* cycle with its next step possible.  A failed recognition (error result,
\* exception or timeout) is published with ocr_ok false and its error
\* message; a failed correction, an exception of the correction future
\* included, is published with llm_ok false, an error message and the
\* uncorrected text; an exception while taking a frame skips the cycle; and
\* each of them is followed by the next cycle.
C19_FailuresNeverEndTheLoop ==
    /\ []LoopGoesOn
    /\ [][ /\ (pc = "frame" /\ pc' = "drain" /\ ret'.branch = "ocr_fail")
              => /\ ~st'.latest_result.ocr_ok
                 /\ st'.latest_result.error_msg = "ocr error"
                 /\ st'.latest_result.debounced_ocr = ret'.stable
           /\ (pc = "frame" /\ pc' = "drain" /\ ret'.branch = "frame_error")
              => st' = st /\ pl' = pl /\ deb' = deb /\ futures' = futures
           /\ (pc = "drain" /\ pc' = "frame" /\ futures' # futures /\ ~ret'.llm_ok)
              => /\ ret'.op = "merge"
                 /\ ~st'.latest_result.llm_ok /\ st'.latest_result.ocr_ok
                 /\ st'.latest_result.error_msg \in {"llm error", "exception"}
                 /\ st'.latest_result.corrected = ret'.stable
                 /\ pl'.pending_llm = <<>> /\ futures' = {} ]_vars

\* The correction future raised, the merge published the failure, and a later
\* cycle has taken a frame and published a failed recognition.
C19_Witness ==
    /\ pc = "drain"
    /\ ret.op = "process" /\ ret.branch = "ocr_fail"
    /\ ~st.latest_result.ocr_ok
    /\ calls = 1 /\ futures = {} /\ pl.pending_llm = <<>>
    /\ pl.last_sent_text # NoneText /\ pl.last_corrected = NoneText
    /\ cb.consecutive_failures = 1


\* C21: whenever the same-text branch republishes last_corrected for a stable
\* text equal to last_sent_text, the published corrected text is the output
\* of a successful correction call on this same stable text.
C21_DedupRepublishesOwnCorrection ==
    (ret.op = "process" /\ ret.branch = "dedup")
        => /\ ret.stable = pl.last_sent_text
           /\ st.latest_result.corrected = pl.last_corrected
           /\ st.latest_result.corrected = Corrected(ret.stable)


\* The last correction call was made on the text last_sent_text, has been
\* merged as a failure, and nothing stands in the way of a new call at time t:
\* the breaker is not open, the throttle permits, no unexpired cache entry.
FailedAndFree(text, t) ==
    /\ pl.pending_llm = <<>> /\ pl.last_sent_text = text
    /\ cb.consecutive_failures >= 1
    /\ ~is_open(cb, t)
    /\ can_call(thr, t).ok
    /\ FreshEntries(cache, text, t) = {}
    /\ calls < MaxCalls

\* C22: after a correction call for a text has failed with the breaker not
\* open, a cycle that finds the same text stable while the throttle permits
\* submits a new call for it, whatever was corrected earlier.
C22_FailedTextIsRetried ==
    [][ ( /\ pc = "frame" /\ pc' = "drain"
          /\ ret'.branch \in StableBranches
          /\ FailedAndFree(ret'.stable, now) )
        => /\ ret'.branch = "dispatch"
           /\ calls' = calls + 1
           /\ \E f \in futures' : f.text = ret'.stable /\ f.state = "running" ]_vars


\* A cycle has taken a frame and recognition failed on it (error result,
\* exception or timeout).
RecognitionFailed == pc = "frame" /\ pc' = "drain" /\ ret'.op = "process"
                     /\ ret'.branch \notin {"no_frame", "frame_error"} /\ ~ret'.ocr_ok

\* C23: a cycle whose recognition fails leaves the window of the debouncer
\* as it was: no sample is added for it.
C23_FailedRecognitionAddsNoSample ==
    [][ RecognitionFailed => deb'.q = deb.q ]_vars

\* C27: a cycle whose recognition fails publishes ocr_ok false with the error
\* message and leaves the breaker, the cache, the throttler and the
\* outstanding correction call as they were.
C27_FailedRecognitionLeavesCorrectionAlone ==
    [][ RecognitionFailed
        => /\ ret'.branch = "ocr_fail"
           /\ ~st'.latest_result.ocr_ok
           /\ st'.latest_result.error_msg = "ocr error"
           /\ cb' = cb /\ cache' = cache /\ thr' = thr
           /\ pl' = pl /\ futures' = futures /\ calls' = calls ]_vars

\* Recognition failed in a cycle that ran while a call was outstanding and an
\* entry was cached.
C27_Witness ==
    /\ ret.op = "process" /\ ret.branch = "ocr_fail"
    /\ ~st.latest_result.ocr_ok
    /\ pl.pending_llm # <<>>
    /\ \E f \in futures : f.state = "running"
    /\ cache.data # <<>>
    /\ thr.last_call_ts_ms > 0


\* A cycle reaches the tests on a stable text for which both hold: it is the
\* text last sent with a previous corrected text, and the cache has an
\* unexpired entry for it.
SameTextAndCached ==
    /\ pc = "frame" /\ pc' = "drain" /\ ret'.op = "process"
    /\ ret'.branch \in StableBranches
    /\ pl.last_sent_text = ret'.stable /\ pl.last_corrected # NoneText
    /\ FreshEntries(cache, ret'.stable, now) # {}

\* C24 as claimed: the same-text test comes before the cache test, so such a
\* cycle takes the same-text branch and does not touch the cache.
C24_DedupBeforeCache ==
    [][ SameTextAndCached => ret'.branch = "dedup" /\ cache' = cache ]_vars

\* C24: the cache test comes before the same-text test: such a cycle takes
\* the cache branch, publishes the cached correction, which is the previous
\* corrected text, and makes the entry the most recently used one.
C24_CacheBeforeDedup ==
    [][ SameTextAndCached
        => /\ ret'.branch = "cache_hit"
           /\ st'.latest_result.corrected = pl.last_corrected
           /\ \A e \in FreshEntries(cache, ret'.stable, now) :
                /\ st'.latest_result.corrected = e.corrected
                /\ cache'.data[Len(cache'.data)] = e
           /\ calls' = calls ]_vars

\* A cycle on the text last sent and corrected took the cache branch, with
\* another text cached as well.
C24_Witness ==
    /\ ret.op = "process" /\ ret.branch = "cache_hit"
    /\ ret.stable = pl.last_sent_text
    /\ st.latest_result.corrected = pl.last_corrected
    /\ Len(cache.data) = 2
    /\ cache.data[2].key = make_key(ret.stable, last_llm_lang_hint)


\* Every entry of the cache maps a text the pipeline sent to its correction.
EntriesAreOwnCorrections ==
    \A i \in 1..Len(cache.data) :
        \E text \in PipeTexts \ {<<>>} :
            /\ cache.data[i].key = make_key(text, last_llm_lang_hint)
            /\ cache.data[i].corrected = Corrected(text)

\* C25: every cache entry maps a text to the output of a successful
\* correction call on that text: a merge of a failed call leaves the cache
\* as it was, and a merge of a successful call stores the result under the
\* text the call was submitted for, whatever the stable text is by then.
C25_CacheHoldsOwnCorrections ==
    /\ []EntriesAreOwnCorrections
    /\ [][ (pc = "drain" /\ pc' = "frame" /\ futures' # futures)
           => \A f \in futures :
                IF f.out = "ok"
                THEN /\ cache'.data # <<>>
                     /\ cache'.data[Len(cache'.data)] =
                           [ key |-> make_key(f.text, last_llm_lang_hint),
                             corrected |-> Corrected(f.text), ts |-> now ]
                     /\ \A i \in 1..Len(cache'.data) - 1 :
                           \E j \in 1..Len(cache.data) : cache'.data[i] = cache.data[j]
                ELSE cache' = cache ]_vars

\* A call succeeded after the stable text had changed, and its result was
\* cached under the text it was submitted for.
C25_Witness ==
    /\ ret.op = "merge" /\ ret.llm_ok
    /\ get_stable(deb) # ret.stable /\ get_stable(deb) # <<>>
    /\ cache.data # <<>>
    /\ cache.data[Len(cache.data)].key = make_key(ret.stable, last_llm_lang_hint)
    /\ cache.data[Len(cache.data)].corrected = Corrected(ret.stable)


\* A finished call waits for the top of the next cycle, where it is merged
\* (frame or no frame); the outstanding call is always the last one
\* submitted, so no call is merged twice.
FinishedCallIsMergedNext ==
    /\ \A f \in futures : f.id = calls /\ pl.pending_llm # <<>>
    /\ (pc = "drain" /\ \E f \in PendingFuture : f.state = "done")
          => ENABLED DrainMerge /\ ~ENABLED DrainIdle

\* C26: a finished correction call is merged once, at the top of the next
\* cycle whether or not a frame is there.  On success the breaker counter is
\* reset and the corrected text is published with llm_ok true; on failure or
\* exception one failure is added to the breaker counter and the submitted
\* text is published with llm_ok false and an error message.  pending_llm is
\* cleared either way.
C26_ResolvedCallIsMergedOnce ==
    /\ []FinishedCallIsMergedNext
    /\ [][ (pc = "drain" /\ pc' = "frame" /\ pl.pending_llm # <<>>
               /\ \E f \in futures : f.state = "done")
           => \A f \in futures :
                /\ pl'.pending_llm = <<>> /\ futures' = {} /\ calls' = calls
                /\ st'.latest_result.debounced_ocr = f.text
                /\ st'.latest_result.ocr_ok
                /\ IF f.out = "ok"
                   THEN /\ cb'.consecutive_failures = 0
                        /\ st'.latest_result.corrected = Corrected(f.text)
                        /\ st'.latest_result.llm_ok
                   ELSE /\ cb'.consecutive_failures = cb.consecutive_failures + 1
                        /\ cb'.last_failure_time = now
                        /\ st'.latest_result.corrected = f.text
                        /\ ~st'.latest_result.llm_ok
                        /\ st'.latest_result.error_msg # None ]_vars

\* A second failure in a row has been merged at the top of a cycle for which
\* no new frame is there.
C26_Witness ==
    /\ pc = "frame"
    /\ ret.op = "merge" /\ ~ret.llm_ok
    /\ cb.consecutive_failures = 2
    /\ get_frame_for_ocr(st, config.FRAME_SKIP).frame = NoFrame
    /\ pl.pending_llm = <<>> /\ futures = {}
    /\ calls = 2


\* soft_stable as the cycle computes it, for the window d and the raw text
SoftStable(d, raw_text) ==
    \/ is_stable(d)
    \/ /\ config.OCR_SOFT_STABLE_ENABLED
       /\ get_stable(d) # <<>> /\ raw_text # <<>>
       /\ similar_at_least(get_stable(d), raw_text, config.OCR_SOFT_STABLE_SIMILARITY)

\* C28: when recognition succeeded and the stable text is empty, or neither
\* is_stable() nor the soft-stability test holds, the cycle publishes the raw
\* text as a preview (corrected = raw text, llm_ok true, no error), submits
\* no call and leaves cache, throttler and breaker as they were.
C28_UnstableTextIsPreviewed ==
    [][ ( /\ pc = "frame" /\ pc' = "drain" /\ ret'.op = "process"
          /\ ret'.branch \notin {"no_frame", "frame_error"} /\ ret'.ocr_ok
          /\ (get_stable(deb') = <<>> \/ ~SoftStable(deb', ret'.raw)) )
        => /\ ret'.branch = "preview"
           /\ st'.latest_result.raw_ocr = ret'.raw
           /\ st'.latest_result.corrected = ret'.raw
           /\ st'.latest_result.debounced_ocr = get_stable(deb')
           /\ st'.latest_result.ocr_ok /\ st'.latest_result.llm_ok
           /\ st'.latest_result.error_msg = None
           /\ cache' = cache /\ thr' = thr /\ cb' = cb
           /\ calls' = calls /\ futures' = futures /\ pl' = pl ]_vars

\* A blank recognition after a text was corrected and cached: the window has
\* the text and the blank, the stable text is empty, the cycle previews.
C28_Witness ==
    /\ ret.op = "process" /\ ret.branch = "preview"
    /\ ret.raw = <<>> /\ get_stable(deb) = <<>>
    /\ Len(deb.q) = 2 /\ deb.q[1] # <<>>
    /\ cache.data # <<>>
    /\ st.latest_result.corrected = <<>> /\ st.latest_result.llm_ok


\* C29: the cycle that dispatches submits one call, for the stable text of
\* the cycle, keeps it in pending_llm as the outstanding call, and ends by
\* publishing the stable text uncorrected (corrected = stable text, llm_ok
\* true) while the call is still running.
C29_DispatchSubmitsOneAndPublishes ==
    [][ ( /\ pc = "frame" /\ pc' = "drain" /\ ret'.op = "process"
          /\ (ret'.branch = "dispatch" \/ calls' # calls \/ futures' # futures) )
        => /\ ret'.branch = "dispatch"
           /\ calls' = calls + 1
           /\ futures = {} /\ pl.pending_llm = <<>>
           /\ futures' = {[ id |-> calls', text |-> ret'.stable,
                            state |-> "running", out |-> None ]}
           /\ Len(pl'.pending_llm) = 1
           /\ pl'.pending_llm[1].fut = calls'
           /\ pl'.pending_llm[1].stable = ret'.stable
           /\ pl'.last_sent_text = ret'.stable
           /\ ret'.stable = get_stable(deb') /\ ret'.stable # <<>>
           /\ st'.latest_result.corrected = ret'.stable
           /\ st'.latest_result.debounced_ocr = ret'.stable
           /\ st'.latest_result.raw_ocr = ret'.raw
           /\ st'.latest_result.llm_ok /\ st'.latest_result.ocr_ok ]_vars

\* The second call has just been submitted for a text other than the first,
\* which was corrected; the cycle published the new text uncorrected.
C29_Witness ==
    /\ pc = "drain"
    /\ ret.op = "process" /\ ret.branch = "dispatch"
    /\ calls = 2
    /\ futures = {[id |-> 2, text |-> ret.stable, state |-> "running", out |-> None]}
    /\ pl.last_corrected # NoneText /\ pl.last_corrected # Corrected(ret.stable)
    /\ st.latest_result.corrected = ret.stable
    /\ st.latest_result.llm_ok

\* The minimum interval has elapsed since the throttler last granted a call.
IntervalElapsed == now * 1000 - thr.last_call_ts_ms >= thr.interval

\* What a cycle the throttle denies does: it publishes the stable text
\* uncorrected with llm_ok true, submits nothing and leaves the throttler as
\* it was.
DenialPublishes ==
    ( /\ pc = "frame" /\ pc' = "drain" /\ ret'.op = "process"
      /\ ret'.branch = "throttled" )
    => /\ ~IntervalElapsed /\ thr' = thr
       /\ st'.latest_result.corrected = ret'.stable
       /\ st'.latest_result.debounced_ocr = ret'.stable
       /\ st'.latest_result.llm_ok /\ st'.latest_result.ocr_ok
       /\ calls' = calls /\ futures' = futures /\ pl' = pl

\* The cycle before was denied by the throttle; this cycle finds the same
\* text stable, not cached, the breaker not open, and the interval elapsed.
AfterDenial ==
    /\ pc = "frame" /\ pc' = "drain"
    /\ ret.op = "process" /\ ret.branch = "throttled"
    /\ ret'.op = "process" /\ ret'.branch \in StableBranches
    /\ ret'.stable = ret.stable
    /\ IntervalElapsed
    /\ FreshEntries(cache, ret'.stable, now) = {}
    /\ ~is_open(cb, now)
    /\ calls < MaxCalls

\* the call of this cycle, for its stable text, stamped by the throttler
SubmitsStableText ==
    /\ ret'.branch = "dispatch"
    /\ \E f \in futures' : f.text = ret'.stable /\ f.state = "running"
    /\ thr'.last_call_ts_ms = now * 1000

CooldownElapsed ==
    /\ cb.consecutive_failures >= cb.failure_threshold
    /\ now - cb.last_failure_time >= cb.cooldown_sec

\* C31: there is no half-open state. Once the cooldown has elapsed with the
\* counter at or above failure_threshold, is_open() is false, so the next
\* call goes out; if that call fails, the one failure opens the breaker
\* again at once and for a full cooldown; if it succeeds, the counter is 0.
C31_NoHalfOpenState ==
    [][ CooldownElapsed =>
          /\ ~is_open(cb, now)
          /\ hist'.outcomes = hist.outcomes \o <<"F">> =>
                /\ \A t \in now..(now + cb.cooldown_sec - 1) : is_open(cb', t)
                /\ ~is_open(cb', now + cb.cooldown_sec)
          /\ hist'.outcomes = hist.outcomes \o <<"S">> =>
                cb'.consecutive_failures = 0 ]_vars

\* After failure_threshold failures and an elapsed cooldown, one more
\* failure was recorded and the breaker is open again.
C31_Witness ==
    /\ ret.op = "record_failure"
    /\ cb.failure_threshold >= 2
    /\ hist.outcomes = [i \in 1..(cb.failure_threshold + 1) |-> "F"]
    /\ hist.prev_failure # <<>>
    /\ now - hist.prev_failure[1] >= cb.cooldown_sec
    /\ is_open(cb, now)

\* C32: whenever the breaker is open no correction call is outstanding (the
\* failure that opens it is recorded by the merge, which clears pending_llm,
\* and nothing is submitted while it is open), so no outcome is recorded
\* while it is open and the cooldown is never extended.
C32_OpenBreakerHasNoOutstandingCall ==
    /\ [](is_open(cb, now) => pl.pending_llm = <<>>)
    /\ [][is_open(cb, now) => cb' = cb]_vars

\* A cycle inside the cooldown window, after the instant of the failure
\* that opened the breaker, took the breaker branch.
C32_Witness ==
    /\ ret.op = "process" /\ ret.branch = "breaker_open"
    /\ is_open(cb, now)
    /\ now > cb.last_failure_time
    /\ pl.pending_llm = <<>>
    /\ pc = "drain"

\* The thresholds is_soft_stable() is asked with, in percent.
SoftThresholds == {0, 50, 85, 92, 100}

\* C33: on a non-empty window whose latest sample is non-empty and in which
\* nothing reaches min_votes, get_stable() is the latest sample, so
\* is_soft_stable(t) holds for every threshold t <= 1 and the cycle that
\* added the sample goes on to the cache and the gate instead of the
\* preview branch, also on the first sample.
C33_NoQuorumIsSoftStable ==
    (deb.q # <<>> /\ Last(deb.q) # <<>> /\ NoQuorum(deb)) =>
        /\ ~is_stable(deb)
        /\ get_stable(deb) = Last(deb.q)
        /\ \A pct \in SoftThresholds : is_soft_stable(deb, pct)
        /\ ret.op = "add" /\ early_branch(deb, ret.raw, TRUE) = "gate"

\* The first sample of a debouncer that needs two votes, recognised with
\* surrounding white space.
C33_Witness ==
    /\ Len(deb.q) = 1
    /\ deb.min_votes >= 2 /\ NoQuorum(deb)
    /\ Last(deb.q) # <<>>
    /\ ret.op = "add" /\ ret.raw # Last(deb.q)
    /\ is_soft_stable(deb, 100)
    /\ early_branch(deb, ret.raw, TRUE) = "gate"

\* The votes of a text in the window: its occurrences (exact mode) or the
\* samples similar to it (similarity mode).
VoteCount(d, text) ==
    IF d.similarity_vote <= 0 THEN Count(d.q, text) ELSE similar_count(d, text)

\* C34: in both modes and after any sequence of add(), is_stable() is true
\* if and only if the text get_stable() returns has at least min_votes votes.
C34_StableIffReturnedTextHasQuorum ==
    is_stable(deb) <=> VoteCount(deb, get_stable(deb)) >= deb.min_votes

\* A similarity-mode window that is stable with exactly min_votes votes,
\* which the returned text has only thanks to samples similar to it.
C34_Witness ==
    /\ deb.similarity_vote > 0 /\ deb.min_votes >= 2
    /\ ret.op = "add"
    /\ is_stable(deb)
    /\ similar_count(deb, get_stable(deb)) = deb.min_votes
    /\ Count(deb.q, get_stable(deb)) < deb.min_votes

\* The window elements whose similarity count reaches min_votes.
QuorumCandidates(d) == {v \in Values(d.q) : similar_count(d, v) >= d.min_votes}

\* C35: in similarity mode get_stable() returns the window element with the
\* highest similarity count if that count reaches min_votes, the one that
\* occurs earliest in the window among those with the highest count, and
\* the most recent sample if no element reaches min_votes.
C35_SimilarityModeReturnsBestEarliest ==
    (deb.similarity_vote > 0 /\ deb.q # <<>>) =>
        IF QuorumCandidates(deb) = {}
        THEN get_stable(deb) = Last(deb.q)
        ELSE /\ get_stable(deb) \in QuorumCandidates(deb)
             /\ \A w \in Values(deb.q) \ {get_stable(deb)} :
                    \/ similar_count(deb, w) < similar_count(deb, get_stable(deb))
                    \/ /\ similar_count(deb, w) = similar_count(deb, get_stable(deb))
                       /\ FirstIndex(deb.q, get_stable(deb)) < FirstIndex(deb.q, w)

\* Two different window elements share the highest count, which reaches
\* min_votes; the older one is returned and it is not the latest sample.
C35_Witness ==
    /\ deb.similarity_vote > 0 /\ deb.min_votes >= 2 /\ deb.q # <<>>
    /\ ret.op = "add"
    /\ get_stable(deb) # Last(deb.q)
    /\ similar_count(deb, Last(deb.q)) = similar_count(deb, get_stable(deb))
    /\ similar_count(deb, get_stable(deb)) >= deb.min_votes
    /\ \E w \in Values(deb.q) : similar_count(deb, w) < deb.min_votes

\* C36: a denied can_call() leaves the throttler as it was: the timestamp
\* stays that of the last grant, so after any number of denials the next
\* request is granted exactly from one interval after the last grant on.
C36_DenialHasNoSideEffect ==
    /\ [][ (now' = now /\ ret'.op = "can_call" /\ ~ret'.ok) => thr' = thr ]_vars
    /\ []( (thr.interval > 0 /\ hist.granted # <<>>) =>
              /\ thr.last_call_ts_ms = hist.granted[1]
              /\ \A t \in now..(MaxThrTime + 2) :
                    can_call(thr, t).ok = (t * 1000 - hist.granted[1] >= thr.interval) )

\* A request was denied after an earlier denial and a grant; one interval
\* after that grant has not yet elapsed.
C36_Witness ==
    /\ ret.op = "can_call" /\ ~ret.ok /\ ret.denied_since
    /\ ret.prev_grant # <<>> /\ ret.prev_grant[1] > 0
    /\ thr.interval >= 2000
    /\ thr.last_call_ts_ms = ret.prev_grant[1]
    /\ ret.t_ms > ret.prev_grant[1]

\* A cycle in which can_call() returned true: the throttler of the pipeline
\* has a positive interval, so a grant is a new timestamp.
GrantedInCycle ==
    /\ pc = "frame" /\ pc' = "drain" /\ ret'.op = "process"
    /\ thr' # thr

\* C37 as claimed: a cycle in which can_call() returns true submits a
\* correction call in that cycle, so no cycle that submits nothing advances
\* the throttle timestamp.
C37_GrantIsUsedByACall ==
    [][ GrantedInCycle => calls' = calls + 1 /\ ret'.branch = "dispatch" ]_vars

\* C37: a cycle in which can_call() returns true, recording the time,
\* submits a call in that cycle exactly if no call is outstanding; with a
\* call outstanding it takes the busy branch, submits nothing and keeps the
\* new timestamp.  The dispatch and the busy branch are reached only by a
\* grant.
C37_GrantIsUsedUnlessCallOutstanding ==
    [][ /\ GrantedInCycle =>
              /\ thr'.last_call_ts_ms = now * 1000
              /\ pl.pending_llm = <<>> =>
                    /\ ret'.branch = "dispatch" /\ calls' = calls + 1
              /\ pl.pending_llm # <<>> =>
                    /\ ret'.branch = "busy"
                    /\ calls' = calls /\ futures' = futures /\ pl' = pl
        /\ ( /\ pc = "frame" /\ pc' = "drain" /\ ret'.op = "process"
             /\ ret'.branch \in {"busy", "dispatch"} )
           => thr' # thr /\ thr'.last_call_ts_ms = now * 1000 ]_vars

\* A cycle found the interval elapsed since the call still outstanding was
\* submitted: the throttler has stamped the time of this cycle and nothing
\* was submitted.
C37_Witness ==
    /\ ret.op = "process" /\ ret.branch = "busy"
    /\ pc = "drain"
    /\ pl.pending_llm # <<>>
    /\ hist # <<>> /\ hist[1] < now
    /\ thr.last_call_ts_ms = now * 1000
    /\ calls = 1

(***************************************************************************)
(* SpecPool: the executor of start_worker (ThreadPoolExecutor with two     *)
(* workers) as the loop uses it.  A task is [id, kind, state]: kind "ocr"  *)
(* (_run_ocr_safe) or "llm" (_run_llm_safe), state "queued", "running" or  *)
(* "done".  A task that got a worker keeps it until its function returns;  *)
(* a function that never returns keeps it for ever.                        *)
(*   futures        : the tasks submitted so far.                          *)
(*   pl.future_ocr  : the recognition task the loop is waiting for.        *)
(*   pl.pending_llm : the correction task not merged yet.                  *)
(*   calls          : the number of tasks submitted.                       *)
(*   pc             : "drain" at the top of a cycle, "wait_ocr" inside     *)
(*                    future_ocr.result(timeout=...).                      *)
(***************************************************************************)
MaxPoolTasks == 4

\* ThreadPoolExecutor(max_workers=2)
max_workers == 2

PoolLocals == [pending_llm |-> <<>>, future_ocr |-> <<>>]

TaskOf(fs, id) == CHOOSE f \in fs : f.id = id
Running(fs) == {f \in fs : f.state = "running"}
Queued(fs) == {f \in fs : f.state = "queued"}

\* executor.submit(fn, ...): the task gets a worker at once if one is free
\* and waits in the queue otherwise.
executor_submit(fs, id, kind) ==
    fs \cup { [ id |-> id, kind |-> kind,
                state |-> IF Cardinality(Running(fs)) < max_workers
                          THEN "running" ELSE "queued" ] }

\* The function of a running task returns: its worker takes the task that
\* has waited longest in the queue, if any.
worker_returns(fs, id) ==
    LET next == IF Queued(fs) = {} THEN {}
                ELSE {CHOOSE f \in Queued(fs) : \A g \in Queued(fs) : f.id <= g.id}
    IN  { IF f.id = id THEN [f EXCEPT !.state = "done"]
          ELSE IF f \in next THEN [f EXCEPT !.state = "running"]
          ELSE f : f \in fs }

\* future.done()
future_done(fs, id) == TaskOf(fs, id).state = "done"

\* The top of a cycle: pending_llm after `if pending_llm is not None` ...
\* `if future_llm.done():` ... `pending_llm = None`.
drained(p, fs) ==
    IF p.pending_llm # <<>> /\ future_done(fs, p.pending_llm[1])
    THEN [p EXCEPT !.pending_llm = <<>>]
    ELSE p

InitPool ==
    /\ now = 0
    /\ deb = IdleDeb /\ cache = IdleCache /\ thr = IdleThr /\ cb = IdleCb
    /\ ret = IdleRet /\ hist = IdleHist
    /\ st = SharedState
    /\ pl = PoolLocals
    /\ futures = {} /\ calls = 0 /\ pc = "drain"

\* A cycle that merges a finished correction call, if any, and gets no
\* frame: it sleeps and starts over.
PoolNoFrame ==
    /\ pc = "drain"
    /\ pl' = drained(pl, futures)
    /\ ret' = [op |-> "no_frame"]
    /\ UNCHANGED <<now, deb, cache, thr, cb, hist, st, futures, calls, pc>>

\* A cycle that merges a finished correction call, if any, gets a frame and
\* submits the recognition call, then waits for its result.
PoolSubmitOcr ==
    /\ pc = "drain"
    /\ calls < MaxPoolTasks
    /\ futures' = executor_submit(futures, calls + 1, "ocr")
    /\ pl' = [drained(pl, futures) EXCEPT !.future_ocr = <<calls + 1>>]
    /\ calls' = calls + 1
    /\ pc' = "wait_ocr"
    /\ ret' = [op |-> "submit", kind |-> "ocr",
               started |-> TaskOf(futures', calls + 1).state = "running"]
    /\ UNCHANGED <<now, deb, cache, thr, cb, hist, st>>

\* future_ocr.result(timeout=...) returns the result of the recognition
\* call; the rest of the cycle either ends in one of the branches that
\* submit nothing or, with no correction call outstanding, submits one.
PoolOcrReturns ==
    /\ pc = "wait_ocr"
    /\ future_done(futures, pl.future_ocr[1])
    /\ \E dispatch \in BOOLEAN :
         IF dispatch /\ pl.pending_llm = <<>> /\ calls < MaxPoolTasks
         THEN /\ futures' = executor_submit(futures, calls + 1, "llm")
              /\ pl' = [pending_llm |-> <<calls + 1>>, future_ocr |-> <<>>]
              /\ calls' = calls + 1
              /\ ret' = [op |-> "submit", kind |-> "llm",
                         started |-> TaskOf(futures', calls + 1).state = "running"]
         ELSE /\ pl' = [pl EXCEPT !.future_ocr = <<>>]
              /\ ret' = [op |-> "no_submit"]
              /\ UNCHANGED <<futures, calls>>
    /\ pc' = "drain"
    /\ UNCHANGED <<now, deb, cache, thr, cb, hist, st>>

\* future_ocr.result(timeout=...) raises the timeout while the recognition
\* call is still queued or running: the cycle publishes the failure and
\* starts over; the task stays where it is.
PoolOcrTimesOut ==
    /\ pc = "wait_ocr"
    /\ ~future_done(futures, pl.future_ocr[1])
    /\ pl' = [pl EXCEPT !.future_ocr = <<>>]
    /\ ret' = [op |-> "ocr_timeout"]
    /\ pc' = "drain"
    /\ UNCHANGED <<now, deb, cache, thr, cb, hist, st, futures, calls>>

\* _run_ocr_safe or _run_llm_safe returns in its worker thread.
PoolTaskReturns ==
    /\ \E f \in Running(futures) : futures' = worker_returns(futures, f.id)
    /\ UNCHANGED <<now, deb, cache, thr, cb, ret, hist, st, pl, calls, pc>>

NextPool ==
    PoolNoFrame \/ PoolSubmitOcr \/ PoolOcrReturns \/ PoolOcrTimesOut \/ PoolTaskReturns

SpecPool == InitPool /\ [][NextPool]_vars

\* The tasks of a kind that are queued or running in the executor.
InExecutor(kind) == {f \in futures : f.kind = kind /\ f.state # "done"}

\* C38: at any time at most one recognition call and at most one correction
\* call are running or queued in the executor, also after a recognition
\* call has timed out, so no submitted call waits in the queue.
C38_PoolOfTwoSuffices ==
    /\ Cardinality(InExecutor("ocr")) <= 1
    /\ Cardinality(InExecutor("llm")) <= 1
    /\ Queued(futures) = {}

(***************************************************************************)
(* SpecWin: the window of an OCRDebouncer of any length, fed any samples.  *)
(*   hist: the samples passed to add(), oldest first.                      *)
(***************************************************************************)
MaxAdds == 4

\* The recognised texts fed to add(), with leading, trailing and repeated
\* blanks.
WinSamples == RawSamples \cup { <<"a", SP>>, <<SP>> }

InitWin ==
    /\ now = 0
    /\ deb \in { OCRDebouncer(h, 2, 0) : h \in 0..MaxHistoryLen }
    /\ cache = IdleCache /\ thr = IdleThr /\ cb = IdleCb
    /\ ret = IdleRet /\ hist = <<>>
    /\ IdlePipe

\* debouncer.add(raw_text)
WinAdd ==
    /\ Len(hist) < MaxAdds
    /\ \E raw \in WinSamples :
         /\ deb' = add(deb, raw)
         /\ ret' = [op |-> "add", raw |-> raw]
         /\ hist' = hist \o <<raw>>
    /\ UNCHANGED <<now, cache, thr, cb, pipeVars>>

NextWin == WinAdd

SpecWin == InitWin /\ [][NextWin]_vars

\* A text without its leading blanks.
RECURSIVE DropLeading(_)
DropLeading(text) ==
    IF text # <<>> /\ Head(text) = SP THEN DropLeading(Tail(text)) ELSE text

\* A text with every run of blanks reduced to one blank.
RECURSIVE CollapseRuns(_)
CollapseRuns(text) ==
    IF Len(text) < 2 THEN text
    ELSE IF text[1] = SP /\ text[2] = SP THEN CollapseRuns(Tail(text))
    ELSE <<Head(text)>> \o CollapseRuns(Tail(text))

\* The whitespace-normalised form: no leading or trailing blank, single
\* blanks between words.
WhitespaceNormalized(text) ==
    LET c == CollapseRuns(DropLeading(text))
    IN  IF c # <<>> /\ c[Len(c)] = SP THEN SubSeq(c, 1, Len(c) - 1) ELSE c

\* C39: after n calls of add() the window holds the whitespace-normalised
\* forms of the last min(n, history_len) samples, in arrival order (a full
\* window loses exactly its oldest entry), so samples that differ only in
\* leading, trailing or repeated blanks are the same entry.
C39_WindowIsLastSamplesNormalized ==
    LET n == Len(hist)
        k == Min2(n, deb.history_len)
    IN  /\ deb.q = [i \in 1..k |-> WhitespaceNormalized(hist[n - k + i])]
        /\ \A i, j \in 1..k :
              WhitespaceNormalized(hist[n - k + i]) = WhitespaceNormalized(hist[n - k + j])
                  => /\ deb.q[i] = deb.q[j]
                     /\ Count(deb.q, deb.q[i]) >= Cardinality({i, j})

\* More samples than the window holds were added; the window is full and
\* holds the same entry twice for two samples that differ in blanks only.
C39_Witness ==
    /\ ret.op = "add"
    /\ Len(hist) > deb.history_len /\ deb.history_len >= 2
    /\ Len(deb.q) = deb.history_len
    /\ hist[Len(hist)] # hist[Len(hist) - 1]
    /\ deb.q[Len(deb.q)] = deb.q[Len(deb.q) - 1]
    /\ deb.q[Len(deb.q)] # <<>>
    /\ hist[Len(hist) - deb.history_len] # hist[Len(hist)]

(***************************************************************************)
(* SpecLLM: correct_with_llm under every sequence of backend answers, and  *)
(* the breaker as the merge of the loop feeds it.  What one attempt        *)
(* (_call_once and _validate_and_extract) meets:                           *)
(*   "object"      a JSON object with a string under "corrected";          *)
(*   "no_field"    a JSON object without such a string;                    *)
(*   "not_object"  JSON that is not an object (data.get raises);           *)
(*   "unparsable"  no JSON in the answer (_parse_strict_json is None);     *)
(*   "raise"       the client raises (network error, timeout).             *)
(*   hist.retries : config.LLM_RETRY_COUNT.                                *)
(*   hist.calls   : invocations of correct_with_llm so far.                *)
(*   hist.failures: failures the merge recorded on the breaker so far.     *)
(*   pc           : "call" before an invocation, "merge" after it.         *)
(***************************************************************************)
MaxLlmCalls == 2
MaxAttempts == 3

RetryCounts == 0..(MaxAttempts - 1)
AttemptOutcomes == {"object", "no_field", "not_object", "unparsable", "raise"}
LlmTexts == { <<>>, <<"a">>, <<"a", SP, "b">> }

\* _call_once raised nothing and _parse_strict_json returned a dict
yields_object(outcome) == outcome \in {"object", "no_field"}

\* last_error after a failed attempt
attempt_error(outcome) ==
    IF outcome = "unparsable" THEN "JSON parse failed: no valid object in response"
    ELSE IF outcome = "not_object" THEN "object has no attribute 'get'"
    ELSE "backend error"

\* Mutant of call_attempts: the loop runs over range(retries + 2).
RECURSIVE Mut_call_attempts_one_more(_, _, _, _, _)
Mut_call_attempts_one_more(text, outcomes, attempt, retries, last_error) ==
    IF attempt >= retries + 2 \/ attempt >= Len(outcomes)
    THEN [ corrected_text |-> text, success |-> FALSE, attempts |-> attempt,
           error_msg |-> IF last_error = None
                         THEN "JSON parse failed after retries" ELSE last_error ]
    ELSE IF yields_object(outcomes[attempt + 1])
    THEN [ corrected_text |-> IF outcomes[attempt + 1] = "object"
                              THEN strip(Corrected(text)) ELSE text,
           success |-> TRUE, attempts |-> attempt + 1, error_msg |-> None ]
    ELSE Mut_call_attempts_one_more(text, outcomes, attempt + 1, retries,
                                    attempt_error(outcomes[attempt + 1]))

\* `for attempt in range(retries + 1)` of correct_with_llm and the fallback
\* after it; attempt counts the attempts made so far.
RECURSIVE call_attempts(_, _, _, _, _)
call_attempts(text, outcomes, attempt, retries, last_error) ==
    IF attempt >= retries + 1
    THEN [ corrected_text |-> text, success |-> FALSE, attempts |-> attempt,
           error_msg |-> IF last_error = None
                         THEN "JSON parse failed after retries" ELSE last_error ]
    ELSE IF yields_object(outcomes[attempt + 1])
    THEN [ corrected_text |-> IF outcomes[attempt + 1] = "object"
                              THEN strip(Corrected(text)) ELSE text,
           success |-> TRUE, attempts |-> attempt + 1, error_msg |-> None ]
    ELSE call_attempts(text, outcomes, attempt + 1, retries,
                       attempt_error(outcomes[attempt + 1]))

\* correct_with_llm(raw_text): client_ok is whether _get_client_and_model
\* returned; outcomes are the answers the attempts meet.  The result is the
\* LLMResult and the number of attempts made.
correct_with_llm(raw_text, retries, client_ok, outcomes) ==
    IF strip(raw_text) = <<>>
    THEN [ corrected_text |-> raw_text, success |-> TRUE, attempts |-> 0,
           error_msg |-> None ]
    ELSE IF ~client_ok
    THEN [ corrected_text |-> strip(raw_text), success |-> FALSE, attempts |-> 0,
           error_msg |-> "backend error" ]
    ELSE call_attempts(strip(raw_text), outcomes, 0, retries, None)

InitLLM ==
    /\ now = 0
    /\ deb = IdleDeb /\ cache = IdleCache /\ thr = IdleThr
    /\ cb = CircuitBreaker(config.LLM_CIRCUIT_BREAKER_FAILURES,
                           config.LLM_CIRCUIT_BREAKER_COOLDOWN_SEC)
    /\ ret = IdleRet
    /\ hist \in { [retries |-> r, calls |-> 0, failures |-> 0] : r \in RetryCounts }
    /\ st = SharedState /\ pl = PipelineLocals
    /\ futures = {} /\ calls = 0 /\ pc = "call"

\* _run_llm_safe(stable_text): one invocation of correct_with_llm
LlmCall ==
    /\ pc = "call"
    /\ hist.calls < MaxLlmCalls
    /\ \E raw_text \in LlmTexts, client_ok \in BOOLEAN,
          outcomes \in [1..MaxAttempts -> AttemptOutcomes] :
         ret' = [ op |-> "correct_with_llm", raw_text |-> raw_text,
                  client_ok |-> client_ok, outcomes |-> outcomes,
                  result |-> correct_with_llm(raw_text, hist.retries, client_ok, outcomes) ]
    /\ hist' = [hist EXCEPT !.calls = @ + 1]
    /\ pc' = "merge"
    /\ UNCHANGED <<now, deb, cache, thr, cb, st, pl, futures, calls>>

\* The merge of the finished call, as far as the breaker goes:
\* record_success() if llm_ok, record_failure() otherwise.
LlmMerge ==
    /\ pc = "merge"
    /\ IF ret.result.success
       THEN cb' = record_success(cb) /\ hist' = hist
       ELSE /\ cb' = record_failure(cb, now)
            /\ hist' = [hist EXCEPT !.failures = @ + 1]
    /\ ret' = [op |-> "merge", llm_ok |-> ret.result.success,
               attempts |-> ret.result.attempts]
    /\ pc' = "call"
    /\ UNCHANGED <<now, deb, cache, thr, st, pl, futures, calls>>

NextLLM == LlmCall \/ LlmMerge

SpecLLM == InitLLM /\ [][NextLLM]_vars

\* The attempts the loop may make at most, and those among them that meet
\* a JSON object.
AllowedAttempts == 1..(hist.retries + 1)
ObjectAttempts == {i \in AllowedAttempts : yields_object(ret.outcomes[i])}

\* C40: an invocation of correct_with_llm on a non-blank text with a client
\* makes at most LLM_RETRY_COUNT + 1 attempts and stops at the first that
\* yields a parseable object; it always returns an LLMResult, also when the
\* client or an attempt raises; when every attempt fails the result has
\* success false and the input text; the merge then records exactly one
\* failure on the breaker, whatever the number of attempts.
C40_BoundedRetriesOneFailurePerCall ==
    /\ []( ret.op = "correct_with_llm" =>
             /\ ret.result.attempts <= hist.retries + 1
             /\ (strip(ret.raw_text) # <<>> /\ ret.client_ok) =>
                   /\ ObjectAttempts # {} =>
                         /\ ret.result.success
                         /\ \A i \in ObjectAttempts : ret.result.attempts <= i
                         /\ ret.result.attempts \in ObjectAttempts
                   /\ ObjectAttempts = {} =>
                         /\ ~ret.result.success
                         /\ ret.result.attempts = hist.retries + 1
             /\ ~ret.result.success => ret.result.corrected_text = ret.raw_text )
    /\ [][ pc = "merge" =>
             /\ cb'.consecutive_failures =
                   IF ret.result.success THEN 0 ELSE cb.consecutive_failures + 1
             /\ hist'.failures =
                   hist.failures + (IF ret.result.success THEN 0 ELSE 1) ]_vars

\* The second call made all LLM_RETRY_COUNT + 1 = 3 attempts in vain and
\* the merge recorded one failure for it, the second in a row.
C40_Witness ==
    /\ ret.op = "merge" /\ ~ret.llm_ok
    /\ hist.retries = 2 /\ ret.attempts = 3
    /\ hist.calls = 2 /\ hist.failures = 2
    /\ cb.consecutive_failures = 2

====
